---- MODULE Spec2Model ----
(***************************************************************************)
(* Model of the alerting pipeline of ZehraGuard InsightX:                  *)
(* core/services/alert_manager.py (class AlertManager).                    *)
(*                                                                         *)
(* Time is the value of datetime.utcnow() in whole minutes.  Risk scores   *)
(* are in tenths (0.3 is 3, 1.0 is 10).  One action of the model is one    *)
(* run of a coroutine between two points where it yields to the event      *)
(* loop: in process_threats the only such point is the await of            *)
(* asyncio.gather in _send_notifications (every other await is of a        *)
(* coroutine that never suspends).                                         *)
(*                                                                         *)
(* The module imports MimeText and MimeMultipart from email.mime, names    *)
(* the standard library spells MIMEText and MIMEMultipart; the model is of *)
(* the class as written, with these two names taken to resolve.  Threats   *)
(* carry threat_type, severity and risk_score, as ThreatDetector builds    *)
(* them, so the defaults of threat.get(...) are never used.                *)
(***************************************************************************)
EXTENDS Integers, Sequences, FiniteSets, TLC

VARIABLES now, rate_limiters, alert_history, notification_channels,
          call, created, env,
          events, behavioral_analysis, threats, baseline_models,
          baseline_cache, runs, stage, submitted

vars == <<now, rate_limiters, alert_history, notification_channels,
          call, created, env,
          events, behavioral_analysis, threats, baseline_models,
          baseline_cache, runs, stage, submitted>>

\* what BehavioralAnalyzer and ThreatDetector work on: the event batch, the
\* analysis, the threat list, the analyzer's baseline_models, the
\* detector's baseline_cache; runs is the history of what they returned
pipeVars == <<events, behavioral_analysis, threats, baseline_models,
              baseline_cache, runs>>

-----------------------------------------------------------------------------
(* Bounds of the model *)

\* utcnow() never exceeds this many minutes after construction
MaxTime == 60

\* concurrent process_threats calls on the one AlertManager
MaxCalls == 2

-----------------------------------------------------------------------------
(* Program constants *)

\* alert_rules['rate_limits']
per_user_per_hour == 10
per_threat_type_per_hour == 5
cooldown_minutes == 15
\* timedelta(hours=1), in minutes
hour_minutes == 60

\* alert_rules['min_risk_score'], in tenths
min_risk_score == [low |-> 3, medium |-> 5, high |-> 7, critical |-> 8]

Severities == {"low", "medium", "high", "critical"}

\* AlertChannel values that _send_notifications knows how to send
Channels == {"email", "webhook", "slack", "siem"}

NotifyOff == "off"        \* 'enabled': False
NotifyNoUrl == "nourl"    \* enabled, but no url / token configured
NotifyLive == "live"      \* enabled and configured

\* _initialize_notification_channels: email enabled, webhook enabled with an
\* empty url, slack disabled, siem enabled with a splunk endpoint without url
DefaultChannels ==
    [email |-> NotifyLive, webhook |-> NotifyNoUrl, slack |-> NotifyOff,
     siem |-> NotifyNoUrl]

\* a deployment that configured every channel
LiveChannels ==
    [email |-> NotifyLive, webhook |-> NotifyLive, slack |-> NotifyLive,
     siem |-> NotifyLive]

-----------------------------------------------------------------------------
(* Python dict helpers *)

Get(d, k, default) == IF k \in DOMAIN d THEN d[k] ELSE default

Put(d, k, v) == [x \in (DOMAIN d) \cup {k} |-> IF x = k THEN v ELSE d[x]]

EmptyDict == [x \in {} |-> 0]

\* The code builds its keys as strings: f"user_{user_id}", f"threat_{type}"
\* and f"{user_id}_{threat_type}".  The first two never meet, their prefixes
\* differ; the third is one-to-one as long as the threat types are values of
\* ThreatType, none of which ends in "_" followed by another.  The keys are
\* modelled as the pairs these strings stand for.
UserKey(u) == <<"user", u>>
ThreatKey(t) == <<"threat", t>>
DuplicateKey(u, t) == <<u, t>>

\* a clean-up that keeps every timestamp
CleanOld_KeepAll(lst, hour_ago) == lst

\* [ts for ts in lst if ts > hour_ago]
CleanOld(lst, hour_ago) == SelectSeq(lst, LAMBDA ts : ts > hour_ago)

-----------------------------------------------------------------------------
(* The three gates *)

\* risk_score < min_risk_score  =>  return False
BelowMinimum(threat) == threat.risk_score < min_risk_score[threat.severity]

\* _is_rate_limited with > for >= in both comparisons
IsRateLimited_OffByOne(rl, u, t, time) ==
    LET hour_ago == time - hour_minutes
        uk == UserKey(u)
        rl1 == Put(rl, uk, CleanOld(Get(rl, uk, <<>>), hour_ago))
    IN  IF Len(rl1[uk]) > per_user_per_hour
        THEN [limited |-> TRUE, rl |-> rl1]
        ELSE LET tk == ThreatKey(t)
                 rl2 == Put(rl1, tk, CleanOld(Get(rl1, tk, <<>>), hour_ago))
             IN  IF Len(rl2[tk]) > per_threat_type_per_hour
                 THEN [limited |-> TRUE, rl |-> rl2]
                 ELSE [limited |-> FALSE, rl |-> rl2]

\* _is_rate_limited without the per-threat-type check
IsRateLimited_UserOnly(rl, u, t, time) ==
    LET hour_ago == time - hour_minutes
        uk == UserKey(u)
        rl1 == Put(rl, uk, CleanOld(Get(rl, uk, <<>>), hour_ago))
    IN  IF Len(rl1[uk]) >= per_user_per_hour
        THEN [limited |-> TRUE, rl |-> rl1]
        ELSE [limited |-> FALSE, rl |-> rl1]

\* _is_rate_limited: [limited, rl]; rl is the table the call leaves behind
\* _is_rate_limited that looks at the threat type only
IsRateLimited_TypeCapOnly(rl, u, t, time) ==
    LET hour_ago == time - hour_minutes
        tk == ThreatKey(t)
        rl2 == Put(rl, tk, CleanOld(Get(rl, tk, <<>>), hour_ago))
    IN  IF Len(rl2[tk]) >= per_threat_type_per_hour
        THEN [limited |-> TRUE, rl |-> rl2]
        ELSE [limited |-> FALSE, rl |-> rl2]

IsRateLimited(rl, u, t, time) ==
    LET hour_ago == time - hour_minutes
        uk == UserKey(u)
        rl1 == Put(rl, uk, CleanOld(Get(rl, uk, <<>>), hour_ago))
    IN  IF Len(rl1[uk]) >= per_user_per_hour
        THEN [limited |-> TRUE, rl |-> rl1]
        ELSE LET tk == ThreatKey(t)
                 rl2 == Put(rl1, tk, CleanOld(Get(rl1, tk, <<>>), hour_ago))
             IN  IF Len(rl2[tk]) >= per_threat_type_per_hour
                 THEN [limited |-> TRUE, rl |-> rl2]
                 ELSE [limited |-> FALSE, rl |-> rl2]

\* _is_duplicate_alert that never writes the history
IsDuplicateAlert_NoWrite(ah, u, t, time) ==
    LET cooldown_time == time - cooldown_minutes
        k == DuplicateKey(u, t)
    IN  IF k \in DOMAIN ah /\ ah[k] > cooldown_time
        THEN [dup |-> TRUE, ah |-> ah]
        ELSE [dup |-> FALSE, ah |-> ah]

\* _is_duplicate_alert that writes the history before it returns either way
IsDuplicateAlert_AlwaysWrite(ah, u, t, time) ==
    LET cooldown_time == time - cooldown_minutes
        k == DuplicateKey(u, t)
    IN  IF k \in DOMAIN ah /\ ah[k] > cooldown_time
        THEN [dup |-> TRUE, ah |-> Put(ah, k, time)]
        ELSE [dup |-> FALSE, ah |-> Put(ah, k, time)]

\* _is_duplicate_alert with a cooldown of ten minutes
IsDuplicateAlert_TenMinutes(ah, u, t, time) ==
    LET cooldown_time == time - 10
        k == DuplicateKey(u, t)
    IN  IF k \in DOMAIN ah /\ ah[k] > cooldown_time
        THEN [dup |-> TRUE, ah |-> ah]
        ELSE [dup |-> FALSE, ah |-> Put(ah, k, time)]

\* _is_duplicate_alert: [dup, ah]; the history is written only when the
\* check lets the threat pass
IsDuplicateAlert(ah, u, t, time) ==
    LET cooldown_time == time - cooldown_minutes
        k == DuplicateKey(u, t)
    IN  IF k \in DOMAIN ah /\ ah[k] > cooldown_time
        THEN [dup |-> TRUE, ah |-> ah]
        ELSE [dup |-> FALSE, ah |-> Put(ah, k, time)]

\* _should_generate_alert with the rate-limit check ahead of the score check
ShouldGenerateAlert_RateFirst(rl, ah, u, threat, time) ==
    LET r == IsRateLimited(rl, u, threat.threat_type, time)
    IN  IF r.limited
        THEN [ok |-> FALSE, gate |-> "rate_limit", rl |-> r.rl, ah |-> ah]
        ELSE IF BelowMinimum(threat)
        THEN [ok |-> FALSE, gate |-> "min_score", rl |-> r.rl, ah |-> ah]
        ELSE LET d == IsDuplicateAlert(ah, u, threat.threat_type, time)
             IN  IF d.dup
                 THEN [ok |-> FALSE, gate |-> "duplicate",
                       rl |-> r.rl, ah |-> d.ah]
                 ELSE [ok |-> TRUE, gate |-> "none",
                       rl |-> r.rl, ah |-> d.ah]

\* _should_generate_alert with the duplicate check ahead of the rate-limit
\* check
ShouldGenerateAlert_DuplicateFirst(rl, ah, u, threat, time) ==
    IF BelowMinimum(threat)
    THEN [ok |-> FALSE, gate |-> "min_score", rl |-> rl, ah |-> ah]
    ELSE LET d == IsDuplicateAlert(ah, u, threat.threat_type, time)
         IN  IF d.dup
             THEN [ok |-> FALSE, gate |-> "duplicate", rl |-> rl, ah |-> d.ah]
             ELSE LET r == IsRateLimited(rl, u, threat.threat_type, time)
                  IN  IF r.limited
                      THEN [ok |-> FALSE, gate |-> "rate_limit",
                            rl |-> r.rl, ah |-> d.ah]
                      ELSE [ok |-> TRUE, gate |-> "none",
                            rl |-> r.rl, ah |-> d.ah]

\* _should_generate_alert: the gates in order, short-circuit
ShouldGenerateAlert(rl, ah, u, threat, time) ==
    IF BelowMinimum(threat)
    THEN [ok |-> FALSE, gate |-> "min_score", rl |-> rl, ah |-> ah]
    ELSE LET r == IsRateLimited(rl, u, threat.threat_type, time)
         IN  IF r.limited
             THEN [ok |-> FALSE, gate |-> "rate_limit", rl |-> r.rl, ah |-> ah]
             ELSE LET d == IsDuplicateAlert(ah, u, threat.threat_type, time)
                  IN  IF d.dup
                      THEN [ok |-> FALSE, gate |-> "duplicate",
                            rl |-> r.rl, ah |-> d.ah]
                      ELSE [ok |-> TRUE, gate |-> "none",
                            rl |-> r.rl, ah |-> d.ah]

\* _update_rate_limiting that forgets the user's list
UpdateRateLimiting_TypeOnly(rl, u, t, time) ==
    LET tk == ThreatKey(t)
    IN  Put(rl, tk, Append(Get(rl, tk, <<>>), time))

\* _update_rate_limiting that appends to the user's list twice
UpdateRateLimiting_Twice(rl, u, t, time) ==
    LET uk == UserKey(u)
        rl1 == Put(rl, uk, Append(Append(Get(rl, uk, <<>>), time), time))
        tk == ThreatKey(t)
    IN  Put(rl1, tk, Append(Get(rl1, tk, <<>>), time))

\* _update_rate_limiting: one timestamp on the user's list, one on the type's
UpdateRateLimiting(rl, u, t, time) ==
    LET uk == UserKey(u)
        rl1 == Put(rl, uk, Append(Get(rl, uk, <<>>), time))
        tk == ThreatKey(t)
    IN  Put(rl1, tk, Append(Get(rl1, tk, <<>>), time))

-----------------------------------------------------------------------------
(* Building and routing an alert *)

\* _determine_priority that looks at the severity alone
DeterminePriority_SeverityOnly(severity, risk_score) == severity

\* _determine_priority (risk_score in tenths)
DeterminePriority(severity, risk_score) ==
    IF severity = "critical" \/ risk_score >= 9 THEN "critical"
    ELSE IF severity = "high" \/ risk_score >= 7 THEN "high"
    ELSE IF severity = "medium" \/ risk_score >= 5 THEN "medium"
    ELSE "low"

\* _get_notification_channels_for_priority that sends every tier everywhere
ChannelsForPriority_Everywhere(priority) == {"email", "slack", "webhook", "siem"}

\* _get_notification_channels_for_priority
ChannelsForPriority(priority) ==
    CASE priority = "critical" -> {"email", "slack", "webhook", "siem"}
      [] priority = "high" -> {"email", "slack", "siem"}
      [] priority = "medium" -> {"email", "siem"}
      [] priority = "low" -> {"siem"}
      [] OTHER -> {"siem"}

\* action_mapping of _get_recommended_actions
action_mapping ==
    [data_exfiltration |->
        <<"Immediately review user's file access logs",
          "Check for unauthorized data transfers",
          "Consider temporarily restricting user access",
          "Investigate network traffic patterns">>,
     policy_violation |->
        <<"Review company security policies with user",
          "Check if user has legitimate business reason",
          "Consider additional training requirements",
          "Monitor user behavior closely">>,
     privilege_escalation |->
        <<"Immediately review user's access permissions",
          "Check for unauthorized privilege changes",
          "Audit recent access attempts",
          "Consider revoking elevated privileges temporarily">>,
     anomalous_behavior |->
        <<"Investigate underlying cause of anomaly",
          "Review recent user activities",
          "Check for compromised credentials",
          "Monitor user behavior patterns">>]

\* the default of action_mapping.get
generic_actions ==
    <<"Review alert details carefully", "Investigate user behavior",
      "Take appropriate security measures">>

\* _get_recommended_actions that knows the table only
GetRecommendedActions_TableOnly(threat) ==
    Get(action_mapping, threat.threat_type, <<>>)

\* _get_recommended_actions
GetRecommendedActions(threat) ==
    Get(action_mapping, threat.threat_type, generic_actions)

\* A string of an id is the list of its pieces between underscores: two
\* strings are equal exactly when their lists are.  The threat types of
\* ThreatType and the user ids of the model that hold an underscore:
underscored ==
    [data_exfiltration |-> <<"data", "exfiltration">>,
     insider_trading |-> <<"insider", "trading">>,
     policy_violation |-> <<"policy", "violation">>,
     anomalous_behavior |-> <<"anomalous", "behavior">>,
     privilege_escalation |-> <<"privilege", "escalation">>,
     malware_activity |-> <<"malware", "activity">>,
     lateral_movement |-> <<"lateral", "movement">>,
     u1_data |-> <<"u1", "data">>,
     u1_policy |-> <<"u1", "policy">>]

Split(str) == Get(underscored, str, <<str>>)

\* an alert id without the user_id
AlertId_NoUser(u, threat_type, time) ==
    <<"alert", time>> \o Split(threat_type)

\* f"alert_{utcnow():%Y%m%d_%H%M%S}_{user_id}_{threat_type}"; the date and
\* time are one piece, the same for two alerts created in the same second
AlertId(u, threat_type, time) ==
    <<"alert", time>> \o Split(u) \o Split(threat_type)

\* _create_alert
CreateAlert(u, threat, time) ==
    [id |-> AlertId(u, threat.threat_type, time),
     user_id |-> u,
     threat_type |-> threat.threat_type,
     severity |-> threat.severity,
     risk_score |-> threat.risk_score,
     priority |-> DeterminePriority(threat.severity, threat.risk_score),
     status |-> "open",
     created_at |-> time,
     recommended_actions |-> GetRecommendedActions(threat)]

\* the tasks _send_notifications hands to asyncio.gather: one per channel of
\* the priority tier, none of them started yet
NotificationTasks(alert) ==
    [c \in ChannelsForPriority(alert.priority) \cap Channels |-> "pending"]

-----------------------------------------------------------------------------
(* The loop of process_threats *)

\* Runs the for-loop from threats[i] on until it either creates an alert
\* (and then stops at the await of gather) or runs out of threats.  gates
\* notes what became of each threat: the gate that dropped it, or "alert".
RECURSIVE RunLoop(_, _, _, _, _, _, _)
RunLoop(rl, ah, u, batch, i, time, gates) ==
    IF i > Len(batch)
    THEN [passed |-> FALSE, idx |-> i, rl |-> rl, ah |-> ah, gates |-> gates]
    ELSE LET g == ShouldGenerateAlert(rl, ah, u, batch[i], time)
         IN  IF g.ok
             THEN [passed |-> TRUE, idx |-> i, rl |-> g.rl, ah |-> g.ah,
                   gates |-> Append(gates, "alert")]
             ELSE RunLoop(g.rl, g.ah, u, batch, i + 1, time,
                          Append(gates, g.gate))

\* A call of process_threats: where it is (pc), its arguments, the index of
\* the threat whose alert is being dispatched, the alerts list it will
\* return, and the channel tasks of the running gather.  gates and report
\* are history: what became of each threat, what became of each dispatch.
Idle == [pc |-> "idle", user_id |-> "", threats |-> <<>>, idx |-> 0,
         alerts |-> <<>>, chan |-> EmptyDict, gates |-> <<>>,
         report |-> <<>>]

\* the record of every alert ever created: (user, type, time) -> how many
AlertKey(alert) == <<alert.user_id, alert.threat_type, alert.created_at>>

Record(bag, alert) == Put(bag, AlertKey(alert), Get(bag, AlertKey(alert), 0) + 1)

\* The state a call is left in after RunLoop returned r
AfterLoop(p, u, batch, alerts, report, r) ==
    IF r.passed
    THEN LET alert == CreateAlert(u, batch[r.idx], now)
         IN  /\ call' = [call EXCEPT ![p] =
                    [pc |-> "await", user_id |-> u, threats |-> batch,
                     idx |-> r.idx, alerts |-> Append(alerts, alert),
                     chan |-> NotificationTasks(alert), gates |-> r.gates,
                     report |-> report]]
             /\ created' = Record(created, alert)
    ELSE /\ call' = [call EXCEPT ![p] =
                [pc |-> "return", user_id |-> u, threats |-> batch,
                 idx |-> r.idx, alerts |-> alerts, chan |-> EmptyDict,
                 gates |-> r.gates, report |-> report]]
         /\ UNCHANGED created

Procs == 1 .. MaxCalls

Threat(t, x) == [threat_type |-> t, severity |-> x.severity,
                 risk_score |-> x.risk_score]

Batches == UNION {[1 .. n -> {Threat(t, x) : t \in env.types, x \in env.threats}]
                  : n \in 1 .. env.batch}

\* process_threats(user_id, threats), from the call to the first await
ProcessThreats(p, u, batch) ==
    /\ call[p].pc = "idle"
    /\ LET r == RunLoop(rate_limiters, alert_history, u, batch, 1, now,
                        <<>>)
       IN  /\ rate_limiters' = r.rl
           /\ alert_history' = r.ah
           /\ AfterLoop(p, u, batch, <<>>, <<>>, r)
    /\ UNCHANGED <<now, notification_channels, env, pipeVars>>

\* what a channel task does in its first turn on the event loop: it returns
\* at once when the channel is disabled or has no url, the email task formats
\* its message and returns, every other task posts its request and waits
FirstTurn(c, channels) ==
    IF channels[c] # NotifyLive THEN "skipped"
    ELSE IF c = "email" THEN "sent"
    ELSE "inflight"

\* The tasks of one gather get their first turn.  gather schedules them back
\* to back with call_soon and the event loop runs its ready queue in order,
\* so nothing runs between them; what was ready before them runs before them.
StartTasks(p) ==
    /\ call[p].pc = "await"
    /\ \E c \in DOMAIN call[p].chan : call[p].chan[c] = "pending"
    /\ call' = [call EXCEPT ![p].chan =
                   [c \in DOMAIN call[p].chan |->
                       FirstTurn(c, notification_channels)]]
    /\ UNCHANGED <<now, rate_limiters, alert_history, notification_channels,
                   created, env, pipeVars, stage, submitted>>

\* what the task makes of the answer to its request: status 200 is logged
\* as sent, any other status and any exception is logged as an error
ChannelOutcome(answer) == IF answer = "200" THEN "sent" ELSE "failed"

Answers == {"200", "500", "exception"}

\* The request of a channel task is answered
ChannelAnswer(p, c, answer) ==
    /\ call[p].pc = "await"
    /\ c \in DOMAIN call[p].chan
    /\ call[p].chan[c] = "inflight"
    /\ call' = [call EXCEPT ![p].chan[c] = ChannelOutcome(answer)]
    /\ UNCHANGED <<now, rate_limiters, alert_history, notification_channels,
                   created, env, pipeVars, stage, submitted>>

Settled == {"skipped", "sent", "failed"}

\* a gather that returns as soon as one task has failed
GatherDone_FirstFailure(chan) ==
    \/ \A c \in DOMAIN chan : chan[c] \in Settled
    \/ \E c \in DOMAIN chan : chan[c] = "failed"

\* asyncio.gather(*tasks, return_exceptions=True) is done when every task is
GatherDone(chan) == \A c \in DOMAIN chan : chan[c] \in Settled

\* process_threats resumes after its await: _update_rate_limiting for the
\* alert just dispatched, then the loop goes on to the next await or the end
Resume(p) ==
    /\ call[p].pc = "await"
    /\ GatherDone(call[p].chan)
    /\ LET c == call[p]
           rl1 == UpdateRateLimiting(rate_limiters, c.user_id,
                                     c.threats[c.idx].threat_type, now)
           r == RunLoop(rl1, alert_history, c.user_id, c.threats,
                        c.idx + 1, now, c.gates)
       IN  /\ rate_limiters' = r.rl
           /\ alert_history' = r.ah
           /\ AfterLoop(p, c.user_id, c.threats, c.alerts,
                        Append(c.report, c.chan), r)
    /\ UNCHANGED <<now, notification_channels, env, pipeVars, stage,
                   submitted>>

\* process_threats returns its list of alerts to the caller
Return(p) ==
    /\ call[p].pc = "return"
    /\ call' = [call EXCEPT ![p] = Idle]
    /\ UNCHANGED <<now, rate_limiters, alert_history, notification_channels,
                   created, env, pipeVars, stage, submitted>>

\* The event loop has nothing to run: every call is idle or waits for an
\* answer from the network
Quiet ==
    \A p \in Procs :
        \/ call[p].pc = "idle"
        \/ /\ call[p].pc = "await"
           /\ \A c \in DOMAIN call[p].chan : call[p].chan[c] # "pending"
           /\ \E c \in DOMAIN call[p].chan : call[p].chan[c] = "inflight"

\* Time passes
Tick ==
    /\ Quiet
    /\ now + env.step <= env.until
    /\ now' = now + env.step
    /\ UNCHANGED <<rate_limiters, alert_history, notification_channels,
                   call, created, env, pipeVars, stage, submitted>>

-----------------------------------------------------------------------------
(* Environments: who submits what, how fast time is sampled, and how the    *)
(* channels are configured                                                 *)

ThreatTypes == {"data_exfiltration", "insider_trading", "policy_violation",
                "anomalous_behavior", "privilege_escalation",
                "malware_activity", "lateral_movement"}

Qualifying == [severity |-> "medium", risk_score |-> 5]
Weak == [severity |-> "medium", risk_score |-> 4]

\* one user, three threat types: enough to reach the per-user cap
EnvUserCap ==
    [users |-> {"u1"},
     types |-> {"data_exfiltration", "policy_violation", "anomalous_behavior"},
     threats |-> {Qualifying, Weak}, step |-> 15, until |-> MaxTime - 15,
     batch |-> 1, channels |-> DefaultChannels]

\* two users, one threat type: enough to reach the per-type cap and to see
\* the hour go by
EnvTypeCap ==
    [users |-> {"u1", "u2"}, types |-> {"data_exfiltration"},
     threats |-> {Qualifying, Weak}, step |-> 15, until |-> MaxTime,
     batch |-> 2, channels |-> DefaultChannels]

\* one user, one type, time sampled every five minutes: the cooldown
EnvCooldown ==
    [users |-> {"u1"}, types |-> {"privilege_escalation"},
     threats |-> {Qualifying}, step |-> 5, until |-> MaxTime,
     batch |-> 2, channels |-> DefaultChannels]

\* every channel configured, every severity and priority
EnvChannels ==
    [users |-> {"u1"}, types |-> {"data_exfiltration", "malware_activity"},
     threats |-> {[severity |-> "critical", risk_score |-> 8],
                  [severity |-> "critical", risk_score |-> 7],
                  [severity |-> "high", risk_score |-> 7],
                  [severity |-> "medium", risk_score |-> 5],
                  [severity |-> "low", risk_score |-> 3],
                  [severity |-> "low", risk_score |-> 2]},
     step |-> 5, until |-> 5, batch |-> 2, channels |-> LiveChannels]

Envs == {EnvUserCap, EnvTypeCap, EnvCooldown, EnvChannels}

\* two users, one threat type, the siem channel answering over the network
EnvOverlap ==
    [users |-> {"u1", "u2"}, types |-> {"data_exfiltration"},
     threats |-> {Qualifying}, step |-> 15, until |-> MaxTime - 30,
     batch |-> 1, channels |-> LiveChannels]

\* nothing has been analysed or detected
PipelineIdle ==
    /\ events = <<>>
    /\ behavioral_analysis = EmptyDict
    /\ threats = <<>>
    /\ baseline_models = EmptyDict
    /\ baseline_cache = EmptyDict
    /\ runs = <<>>
    /\ stage = "idle"
    /\ submitted = 0

Init ==
    /\ now = 0
    /\ rate_limiters = EmptyDict
    /\ alert_history = EmptyDict
    /\ env \in Envs
    /\ notification_channels = env.channels
    /\ call = [p \in Procs |-> Idle]
    /\ created = EmptyDict
    /\ PipelineIdle

\* process_threats calls made one after the other
SequentialCall ==
    \E p \in Procs, u \in env.users, batch \in Batches :
        /\ \A q \in Procs : call[q].pc = "idle"
        /\ p = 1
        /\ ProcessThreats(p, u, batch)
        /\ UNCHANGED <<stage, submitted>>

\* process_threats calls made while others are suspended
ConcurrentCall ==
    \E p \in Procs, u \in env.users, batch \in Batches :
        /\ ProcessThreats(p, u, batch)
        /\ UNCHANGED <<stage, submitted>>

RunTasks == \E p \in Procs : StartTasks(p)

Answer ==
    \E p \in Procs, c \in Channels, answer \in Answers :
        ChannelAnswer(p, c, answer)

Continue == \E p \in Procs : Resume(p) \/ Return(p)

Next == SequentialCall \/ RunTasks \/ Answer \/ Continue \/ Tick

Spec == Init /\ [][Next]_vars

\* Calls that overlap: a call may start while another is suspended at its
\* await.
ConcInit ==
    /\ now = 0
    /\ rate_limiters = EmptyDict
    /\ alert_history = EmptyDict
    /\ env = EnvOverlap
    /\ notification_channels = env.channels
    /\ call = [p \in Procs |-> Idle]
    /\ created = EmptyDict
    /\ PipelineIdle

ConcNext == ConcurrentCall \/ RunTasks \/ Answer \/ Continue \/ Tick

ConcSpec == ConcInit /\ [][ConcNext]_vars

\* Sequential calls with every channel configured, under the scheduling of
\* the event loop: a task that is ready to run is run.  Whether and when a
\* request is answered is up to the network, and the code sets no timeout.
FairInit ==
    /\ now = 0
    /\ rate_limiters = EmptyDict
    /\ alert_history = EmptyDict
    /\ env = EnvChannels
    /\ notification_channels = env.channels
    /\ call = [p \in Procs |-> Idle]
    /\ created = EmptyDict
    /\ PipelineIdle

FairSpec ==
    FairInit /\ [][Next]_vars /\ WF_vars(RunTasks) /\ WF_vars(Continue)

-----------------------------------------------------------------------------
(* Vocabulary of the properties *)

RECURSIVE Sum(_, _)
Sum(f, S) ==
    IF S = {} THEN 0
    ELSE LET x == CHOOSE y \in S : TRUE IN f[x] + Sum(f, S \ {x})

\* alerts created for user u at a time in (lo, hi]
CreatedBy(u, lo, hi) ==
    Sum(created, {k \in DOMAIN created : k[1] = u /\ lo < k[3] /\ k[3] <= hi})

\* alerts of threat type t created at a time in (lo, hi], whoever the user
CreatedOf(t, lo, hi) ==
    Sum(created, {k \in DOMAIN created : k[2] = t /\ lo < k[3] /\ k[3] <= hi})

\* alerts created for (u, t) at a time in (lo, hi]
CreatedFor(u, t, lo, hi) ==
    Sum(created, {k \in DOMAIN created :
                     k[1] = u /\ k[2] = t /\ lo < k[3] /\ k[3] <= hi})

\* The starts s of the rolling windows (s, s + 60] that matter: a window
\* that holds the most alerts can be moved until it ends at one of them.
WindowStarts == {k[3] - hour_minutes : k \in DOMAIN created}

\* the elements of a list
Range(lst) == {lst[i] : i \in 1 .. Len(lst)}

\* how often x occurs in a list
Occ(lst, x) == Cardinality({i \in 1 .. Len(lst) : lst[i] = x})

\* the list of a key of the rate-limit table, empty when the key is absent
Counter(rl, k) == Get(rl, k, <<>>)

\* the entries of a counter that a check at the present time counts
Counted(k) == Len(CleanOld(Counter(rate_limiters, k), now - hour_minutes))

\* this step is call p starting
Starts(p) == call[p].pc = "idle" /\ call'[p].pc # "idle"

\* this step is call p resuming after its dispatch
Resumes(p) ==
    /\ call[p].pc = "await"
    /\ Len(call'[p].report) > Len(call[p].report)

\* this step creates an alert in call p
Creates(p) ==
    /\ call'[p].pc = "await"
    /\ Starts(p) \/ Resumes(p)

\* the alert whose dispatch call p awaits
Dispatching(c) == c.alerts[Len(c.alerts)]

-----------------------------------------------------------------------------
(* C1: every alert is built from a threat that, when it was checked, had a  *)
(* risk score at or above the minimum of its severity, whose user had      *)
(* fewer than 10 and whose threat type had fewer than 5 alerts in the hour *)
(* before, and whose (user, type) had no alert in the 15 minutes before.   *)
C1_AlertPassedAllGates ==
    [][\A p \in Procs :
          Creates(p) =>
             LET a == Dispatching(call'[p])
             IN  /\ a.risk_score >= min_risk_score[a.severity]
                 /\ CreatedBy(a.user_id, now - hour_minutes, now)
                       < per_user_per_hour
                 /\ CreatedOf(a.threat_type, now - hour_minutes, now)
                       < per_threat_type_per_hour
                 /\ CreatedFor(a.user_id, a.threat_type,
                               now - cooldown_minutes, now) = 0
                 /\ a.created_at = now]_vars

\* the tenth alert of a user within the hour is being dispatched
C1_Witness ==
    \E p \in Procs :
        /\ call[p].pc = "await"
        /\ CreatedBy(call[p].user_id, now - hour_minutes, now)
              = per_user_per_hour
        /\ \E k \in DOMAIN created : k[3] < now

-----------------------------------------------------------------------------
(* C2: the alerts created for one user within any rolling hour (s, s+60]    *)
(* never number more than 10, and a threat is never kept for later: an     *)
(* alert is only ever created by the call that is handling its threat, for *)
(* that call's user, at the present time, one alert per step.              *)
C2_UserCapAndNoQueue ==
    /\ [](\A u \in env.users, s \in WindowStarts :
             CreatedBy(u, s, s + hour_minutes) <= per_user_per_hour)
    /\ [][created' # created =>
             \E p \in Procs :
                /\ Creates(p)
                /\ LET c == call'[p]
                       a == Dispatching(c)
                   IN  /\ created' = Record(created, a)
                       /\ a.user_id = c.user_id
                       /\ a.threat_type = c.threats[c.idx].threat_type
                       /\ a.created_at = now
                       /\ c.gates[c.idx] = "alert"
                       /\ Len(c.gates) = c.idx]_vars

\* a user has 10 alerts within the hour and the threat just handled was
\* dropped by the rate-limit gate
C2_Witness ==
    \E p \in Procs :
        /\ call[p].pc = "return"
        /\ call[p].gates = <<"rate_limit">>
        /\ CreatedBy(call[p].user_id, now - hour_minutes, now)
              = per_user_per_hour

(* C3: a threat that meets its minimum score is rejected by the rate-limit  *)
(* gate when its user's counter holds 10 or more entries of the last hour  *)
(* or its threat type's counter holds 5 or more, whatever the other holds; *)
(* and the alerts of one threat type created within any rolling hour never *)
(* number more than 5, whoever the users are.                              *)
C3_EitherCapRejects ==
    /\ [](\A t \in env.types, s \in WindowStarts :
             CreatedOf(t, s, s + hour_minutes) <= per_threat_type_per_hour)
    /\ [][\A p \in Procs :
             Starts(p) =>
                LET c == call'[p]
                    th == c.threats[1]
                IN  (/\ th.risk_score >= min_risk_score[th.severity]
                     /\ \/ Counted(UserKey(c.user_id)) >= per_user_per_hour
                        \/ Counted(ThreatKey(th.threat_type))
                              >= per_threat_type_per_hour)
                    => c.gates[1] = "rate_limit"]_vars

\* a threat was rejected for its threat type's count alone: the type has 5
\* alerts within the hour, the user fewer than 10
C3_Witness ==
    \E p \in Procs :
        /\ call[p].pc = "return"
        /\ call[p].gates[1] = "rate_limit"
        /\ CreatedBy(call[p].user_id, now - hour_minutes, now)
              < per_user_per_hour
        /\ CreatedOf(call[p].threats[1].threat_type, now - hour_minutes, now)
              = per_threat_type_per_hour
        /\ Cardinality({k[1] : k \in DOMAIN created}) > 1

\* the threat meets its minimum score and neither cap is reached
Admissible(u, th) ==
    /\ th.risk_score >= min_risk_score[th.severity]
    /\ Counted(UserKey(u)) < per_user_per_hour
    /\ Counted(ThreatKey(th.threat_type)) < per_threat_type_per_hour

(* C4: a qualifying threat, no cap reached, yields no alert when an alert   *)
(* for its (user, type) was created less than 15 minutes before it is      *)
(* submitted, and yields an alert when the last such alert was created     *)
(* more than 15 minutes before.                                            *)
C4_CooldownSuppresses ==
    [][\A p \in Procs :
          Starts(p) =>
             LET c == call'[p]
                 th == c.threats[1]
             IN  Admissible(c.user_id, th) =>
                    /\ CreatedFor(c.user_id, th.threat_type,
                                  now - cooldown_minutes, now) > 0
                          => c.gates[1] = "duplicate"
                    /\ CreatedFor(c.user_id, th.threat_type,
                                  now - cooldown_minutes - 1, now) = 0
                          => c.gates[1] = "alert"]_vars

\* two alerts of one (user, type) 20 minutes apart, and a third threat
\* suppressed 5 or 10 minutes after the second
C4_Witness ==
    \E p \in Procs :
        /\ call[p].pc = "return"
        /\ call[p].gates = <<"duplicate">>
        /\ \E k \in DOMAIN created :
              /\ k[1] = call[p].user_id
              /\ k[2] = call[p].threats[1].threat_type
              /\ k[3] < now
              /\ k[3] > now - cooldown_minutes
              /\ <<k[1], k[2], k[3] - 20>> \in DOMAIN created

\* the time of the last alert created for (u, t)
LastAlert(u, t) ==
    LET T == {k[3] : k \in {x \in DOMAIN created : x[1] = u /\ x[2] = t}}
    IN  CHOOSE x \in T : \A y \in T : y <= x

(* C5, as claimed: every duplicate check of a (user, type) sets the entry   *)
(* of that key to the time of the check, whether it passes or suppresses.  *)
C5_EveryCheckResetsClock ==
    [][\A p \in Procs :
          Starts(p) =>
             LET c == call'[p]
                 k == DuplicateKey(c.user_id, c.threats[1].threat_type)
             IN  c.gates[1] \in {"duplicate", "alert"} =>
                    /\ k \in DOMAIN alert_history'
                    /\ alert_history'[k] = now]_vars

(* C5, amended: a duplicate check sets the entry of its key to the time of  *)
(* the check only when it lets the threat pass; a check that suppresses    *)
(* leaves the entry as it was.  The entry is always the time of the last   *)
(* alert of the key, so a qualifying threat, no cap reached, yields an     *)
(* alert as soon as 15 minutes have passed since the last alert, however   *)
(* many threats were suppressed in between.                                *)
C5_OnlyPassingCheckResetsClock ==
    /\ [](\A k \in DOMAIN alert_history :
             /\ CreatedFor(k[1], k[2], 0 - 1, MaxTime) > 0
             /\ alert_history[k] = LastAlert(k[1], k[2]))
    /\ [][\A p \in Procs :
             Starts(p) =>
                LET c == call'[p]
                    th == c.threats[1]
                    k == DuplicateKey(c.user_id, th.threat_type)
                IN  /\ c.gates[1] = "duplicate" =>
                          /\ k \in DOMAIN alert_history
                          /\ alert_history'[k] = alert_history[k]
                    /\ c.gates[1] = "alert" => alert_history'[k] = now
                    /\ (/\ Admissible(c.user_id, th)
                        /\ CreatedFor(c.user_id, th.threat_type,
                                      now - cooldown_minutes, now) = 0)
                          => c.gates[1] = "alert"]_vars

\* a check 10 minutes after the last alert of its key suppressed the threat
\* and left the entry at the time of that alert, which itself was created
\* exactly 15 minutes after the alert before it
C5_Witness ==
    \E p \in Procs :
        /\ call[p].pc = "return"
        /\ call[p].gates = <<"duplicate">>
        /\ LET k == DuplicateKey(call[p].user_id,
                                 call[p].threats[1].threat_type)
           IN  /\ alert_history[k] = now - 10
               /\ <<k[1], k[2], now - 10 - cooldown_minutes>>
                     \in DOMAIN created

\* what this step appends to counter k at time x
Appended(k, x) ==
    IF \E p \in Procs :
          /\ Resumes(p)
          /\ x = now
          /\ k \in {UserKey(call[p].user_id),
                    ThreatKey(Dispatching(call[p]).threat_type)}
    THEN 1 ELSE 0

(* C6: the counters grow only when the counter update of a dispatched alert *)
(* runs, then by exactly one timestamp on the user's counter and one on    *)
(* the threat type's; a step that only drops threats, at whichever gate,   *)
(* adds no timestamp to any counter.                                       *)
C6_CountersGrowOnlyOnAlert ==
    [][\A k \in DOMAIN rate_limiters' :
       \A x \in Range(rate_limiters'[k]) \cup {now} :
          /\ Occ(rate_limiters'[k], x)
                <= Occ(Counter(rate_limiters, k), x) + Appended(k, x)
          /\ Appended(k, x) = 1 =>
                Occ(rate_limiters'[k], x)
                   = Occ(Counter(rate_limiters, k), x) + 1]_vars

\* a call returns one alert and one threat dropped at the rate-limit gate
C6_Witness ==
    \E p \in Procs :
        /\ call[p].pc = "return"
        /\ call[p].gates = <<"alert", "rate_limit">>
        /\ Len(call[p].alerts) = 1

(* C7: a call whose threats are all below the minimum of their severity     *)
(* returns no alert, starts no channel task and leaves the rate-limit      *)
(* table and the duplicate table exactly as they were.                     *)
C7_BelowMinimumNoEffect ==
    [][\A p \in Procs :
          Starts(p) =>
             LET c == call'[p]
             IN  (\A i \in 1 .. Len(c.threats) :
                     c.threats[i].risk_score
                        < min_risk_score[c.threats[i].severity])
                 => /\ rate_limiters' = rate_limiters
                    /\ alert_history' = alert_history
                    /\ created' = created
                    /\ c.pc = "return"
                    /\ c.alerts = <<>>
                    /\ c.chan = EmptyDict
                    /\ c.report = <<>>]_vars

\* a threat below its minimum was dropped while the table held entries older
\* than an hour, which a rate-limit check would have removed
C7_Witness ==
    \E p \in Procs :
        /\ call[p].pc = "return"
        /\ call[p].gates = <<"min_score">>
        /\ \E i \in 1 .. Len(Counter(rate_limiters, UserKey(call[p].user_id))) :
              rate_limiters[UserKey(call[p].user_id)][i] <= now - hour_minutes

(* C8: when process_threats calls overlap, the alerts created within any    *)
(* rolling hour still never number more than 10 for one user nor more than *)
(* 5 for one threat type.                                                  *)
C8_CapsHoldWhenInterleaved ==
    /\ \A u \in env.users, s \in WindowStarts :
          CreatedBy(u, s, s + hour_minutes) <= per_user_per_hour
    /\ \A t \in env.types, s \in WindowStarts :
          CreatedOf(t, s, s + hour_minutes) <= per_threat_type_per_hour

(* C9: when a channel of a dispatch has failed, every channel of the        *)
(* alert's priority tier has still had its attempt (each configured one    *)
(* was sent or failed for itself), the alert stays in the list the call    *)
(* returns, its user's and its threat type's counters get their timestamp, *)
(* and the loop goes on with the rest of the batch.                        *)
C9_ChannelFailuresIsolated ==
    /\ [](\A p \in Procs :
             call[p].pc = "return" =>
                /\ Len(call[p].gates) = Len(call[p].threats)
                /\ Len(call[p].alerts) = Len(call[p].report)
                /\ Len(call[p].alerts)
                      = Cardinality({i \in 1 .. Len(call[p].gates) :
                                        call[p].gates[i] = "alert"}))
    /\ [][\A p \in Procs :
             (Resumes(p) /\ \E c \in DOMAIN call[p].chan :
                                call[p].chan[c] = "failed") =>
                LET c0 == call[p]
                    c1 == call'[p]
                    a == Dispatching(c0)
                    uk == UserKey(a.user_id)
                    tk == ThreatKey(a.threat_type)
                IN  /\ DOMAIN c0.chan = ChannelsForPriority(a.priority)
                    /\ \A c \in DOMAIN c0.chan :
                          /\ c0.chan[c] \in Settled
                          /\ notification_channels[c] = NotifyLive
                                => c0.chan[c] \in {"sent", "failed"}
                    /\ c1.report[Len(c1.report)] = c0.chan
                    /\ SubSeq(c1.alerts, 1, Len(c0.alerts)) = c0.alerts
                    /\ Occ(Counter(rate_limiters', uk), now)
                          = Occ(Counter(rate_limiters, uk), now) + 1
                    /\ Occ(Counter(rate_limiters', tk), now)
                          = Occ(Counter(rate_limiters, tk), now) + 1
                    /\ Len(c1.gates) = IF c1.pc = "return"
                                       THEN Len(c1.threats) ELSE c1.idx
                    /\ c1.idx > c0.idx]_vars

\* a call returns two alerts; in the dispatch of the first the webhook
\* failed and the siem channel was sent
C9_Witness ==
    \E p \in Procs :
        /\ call[p].pc = "return"
        /\ Len(call[p].alerts) = 2
        /\ "webhook" \in DOMAIN call[p].report[1]
        /\ call[p].report[1]["webhook"] = "failed"
        /\ call[p].report[1]["siem"] = "sent"

-----------------------------------------------------------------------------
(* Priority and routing over every severity and every risk score *)

\* risk scores in tenths, 0.0 to 1.0
RiskScores == 0 .. 10

\* one user submitting, at one risk score, threats of every severity
EnvRisk(r) ==
    [users |-> {"u1"}, types |-> {"data_exfiltration", "malware_activity"},
     threats |-> {[severity |-> s, risk_score |-> r] : s \in Severities},
     step |-> 5, until |-> 5, batch |-> 2, channels |-> LiveChannels]

RouteInit ==
    /\ now = 0
    /\ rate_limiters = EmptyDict
    /\ alert_history = EmptyDict
    /\ env \in {EnvRisk(r) : r \in RiskScores}
    /\ notification_channels = env.channels
    /\ call = [p \in Procs |-> Idle]
    /\ created = EmptyDict
    /\ PipelineIdle

RouteSpec == RouteInit /\ [][Next]_vars

\* low < medium < high < critical
Rank(x) ==
    CASE x = "low" -> 1 [] x = "medium" -> 2 [] x = "high" -> 3
      [] x = "critical" -> 4

(* C11: the priority of a created alert is critical when its severity is    *)
(* critical or its risk score is at least 0.9, else high when its severity *)
(* is high or its score at least 0.7, else medium when its severity is     *)
(* medium or its score at least 0.5, else low; it is never lower than the  *)
(* severity.                                                               *)
C11_PriorityFromSeverityAndScore ==
    [][\A p \in Procs :
          Creates(p) =>
             LET a == Dispatching(call'[p])
             IN  /\ a.priority = "critical"
                       <=> (a.severity = "critical" \/ a.risk_score >= 9)
                 /\ a.priority = "high"
                       <=> /\ a.severity # "critical" /\ a.risk_score < 9
                           /\ a.severity = "high" \/ a.risk_score >= 7
                 /\ a.priority = "medium"
                       <=> /\ a.severity \notin {"critical", "high"}
                           /\ a.risk_score < 7
                           /\ a.severity = "medium" \/ a.risk_score >= 5
                 /\ a.priority = "low"
                       <=> (a.severity = "low" /\ a.risk_score < 5)
                 /\ a.priority \in Severities
                 /\ Rank(a.priority) >= Rank(a.severity)]_vars

\* an alert of low severity with risk score 0.9 is dispatched as critical
C11_Witness ==
    \E p \in Procs :
        /\ call[p].pc = "await"
        /\ Dispatching(call[p]).severity = "low"
        /\ Dispatching(call[p]).risk_score = 9
        /\ Dispatching(call[p]).priority = "critical"

\* the channels of each priority tier
Tier(priority) ==
    CASE priority = "critical" -> {"email", "slack", "webhook", "siem"}
      [] priority = "high" -> {"email", "slack", "siem"}
      [] priority = "medium" -> {"email", "siem"}
      [] priority = "low" -> {"siem"}

(* C12: a created alert gets one channel task for each channel of its       *)
(* priority tier and no other; the tasks start in one step, the call       *)
(* resumes only when every one of them has settled, and no further threat  *)
(* of the batch is handled while the call awaits them.                     *)
C12_RoutedToPriorityTier ==
    /\ [](\A p \in Procs :
             call[p].pc = "await" =>
                /\ DOMAIN call[p].chan = Tier(Dispatching(call[p]).priority)
                /\ Len(call[p].gates) = call[p].idx
                /\ \/ \A c \in DOMAIN call[p].chan : call[p].chan[c] = "pending"
                   \/ \A c \in DOMAIN call[p].chan : call[p].chan[c] # "pending")
    /\ [][\A p \in Procs :
             /\ Creates(p) =>
                   \A c \in DOMAIN call'[p].chan : call'[p].chan[c] = "pending"
             /\ call[p].pc = "await" =>
                   \/ call'[p].pc = "await" /\ ~Resumes(p)
                         /\ call'[p].gates = call[p].gates
                         /\ call'[p].alerts = call[p].alerts
                   \/ /\ \A c \in DOMAIN call[p].chan :
                            call[p].chan[c] \in Settled
                      /\ call'[p].report
                            = Append(call[p].report, call[p].chan)]_vars

\* a batch of two: the first alert, of priority critical, has had its four
\* channels settled and the second, of priority high, awaits its three
C12_Witness ==
    \E p \in Procs :
        /\ call[p].pc = "await"
        /\ Len(call[p].alerts) = 2
        /\ call[p].alerts[1].priority = "critical"
        /\ DOMAIN call[p].report[1] = {"email", "slack", "webhook", "siem"}
        /\ Dispatching(call[p]).priority = "high"
        /\ DOMAIN call[p].chan = {"email", "slack", "siem"}
        /\ \E c \in DOMAIN call[p].chan : call[p].chan[c] = "inflight"

-----------------------------------------------------------------------------
(* Numbers of the detector                                                  *)
(*                                                                         *)
(* Confidences, scores and ratios are Python floats.  The model computes   *)
(* with exact fractions num/den in lowest terms, so a sum, a mean or a     *)
(* product is the number the float arithmetic approximates; the two can    *)
(* differ only in the last bit, which shows only where a value meets a     *)
(* threshold exactly.                                                      *)

RECURSIVE GCD(_, _)
GCD(a, b) == IF b = 0 THEN a ELSE GCD(b, a % b)

\* the fraction n/d (d > 0, n >= 0) in lowest terms
Rat(n, d) == LET g == GCD(n, d) IN [num |-> n \div g, den |-> d \div g]

RatAdd(a, b) == Rat(a.num * b.den + b.num * a.den, a.den * b.den)
RatMul(a, b) == Rat(a.num * b.num, a.den * b.den)
RatDivInt(a, n) == Rat(a.num, a.den * n)
RatLess(a, b) == a.num * b.den < b.num * a.den
RatMin(a, b) == IF RatLess(b, a) THEN b ELSE a
One == Rat(1, 1)
Zero == Rat(0, 1)
\* 1 - a, for a in [0, 1]
RatComplement(a) == Rat(a.den - a.num, a.den)

-----------------------------------------------------------------------------
(* Threats as the detector's strategies build them.  A title is a tuple of  *)
(* strings (an f-string is its text and what it inserts), a description is *)
(* its text and the value it inserts, evidence is a dict.                  *)

NewThreat(threat_type, rule_id, severity, title, description, evidence, confidence) ==
    [threat_type |-> threat_type, rule_id |-> rule_id, severity |-> severity,
     title |-> title, description |-> description, evidence |-> evidence,
     confidence |-> confidence]

\* {'low': 1, 'medium': 2, 'high': 3, 'critical': 4}.get(severity, 2)
SeverityRank(severity) ==
    CASE severity = "low" -> 1 [] severity = "medium" -> 2
      [] severity = "high" -> 3 [] severity = "critical" -> 4 [] OTHER -> 2

\* max(threats, key=rank): the first of the members of highest rank
RECURSIVE MaxBySeverity(_, _, _)
MaxBySeverity(group, i, best) ==
    IF i > Len(group) THEN group[best]
    ELSE MaxBySeverity(group, i + 1,
            IF SeverityRank(group[i].severity)
                  > SeverityRank(group[best].severity)
            THEN i ELSE best)

\* combined_evidence.update(evidence) for each member in turn: a later
\* member's value replaces an earlier one's under the same key
RECURSIVE CombineEvidence(_, _, _)
CombineEvidence(group, i, combined) ==
    IF i > Len(group) THEN combined
    ELSE CombineEvidence(group, i + 1,
            [k \in DOMAIN combined \cup DOMAIN group[i].evidence |->
                IF k \in DOMAIN group[i].evidence
                THEN group[i].evidence[k] ELSE combined[k]])

\* sum(confidences)
RECURSIVE SumConfidence(_, _)
SumConfidence(group, i) ==
    IF i > Len(group) THEN Zero
    ELSE RatAdd(group[i].confidence, SumConfidence(group, i + 1))

\* _merge_threats that takes the last member as its base
MergeThreats_LastAsBase(group) ==
    LET base == group[Len(group)]
    IN  [base EXCEPT
           !.evidence = CombineEvidence(group, 1, EmptyDict),
           !.confidence = RatDivInt(SumConfidence(group, 1), Len(group)),
           !.description =
               [text |-> "Multiple indicators detected",
                value |-> [i \in 1 .. Len(group) |-> group[i].title]],
           !.rule_id = <<"merged", base.threat_type>>]

\* _merge_threats (called with two members or more)
MergeThreats(group) ==
    LET base == MaxBySeverity(group, 2, 1)
    IN  [base EXCEPT
           !.evidence = CombineEvidence(group, 1, EmptyDict),
           !.confidence = RatDivInt(SumConfidence(group, 1), Len(group)),
           !.description =
               [text |-> "Multiple indicators detected",
                value |-> [i \in 1 .. Len(group) |-> group[i].title]],
           !.rule_id = <<"merged", base.threat_type>>]

\* the threat types of a list in the order of their first occurrence: the
\* keys of threat_groups
RECURSIVE GroupKeys(_, _, _)
GroupKeys(lst, i, keys) ==
    IF i > Len(lst) THEN keys
    ELSE GroupKeys(lst, i + 1,
            IF \E j \in 1 .. Len(keys) : keys[j] = lst[i].threat_type
            THEN keys ELSE Append(keys, lst[i].threat_type))

\* threat_groups[threat_type]
Group(lst, threat_type) ==
    SelectSeq(lst, LAMBDA t : t.threat_type = threat_type)

\* _correlate_threats
CorrelateThreats(lst) ==
    LET keys == GroupKeys(lst, 1, <<>>)
    IN  [i \in 1 .. Len(keys) |->
            LET group == Group(lst, keys[i])
            IN  IF Len(group) = 1 THEN group[1] ELSE MergeThreats(group)]

-----------------------------------------------------------------------------
(* The four detection strategies.  A strategy is tried: what it returns is  *)
(* [raised, threats], with no threats when an exception was caught.        *)

\* a value that is no number (None, a string): it raises where the code
\* compares it or computes with it
NotANumber == [num |-> 0, den |-> 0]

IsNumber(x) == x.den > 0

\* detection_rules
large_file_access_threshold == 100000000
bulk_download_threshold == 50
work_hours_ratio_threshold == Rat(3, 10)
max_locations == 3
\* if failed_attempts > 3
failed_login_threshold == 3
suspicious_extensions == {".db", ".sql", ".csv", ".xlsx", ".pst"}

\* an integer as a fraction
Int2Rat(n) == Rat(n, 1)

\* round(x * scale): what a format like {x:.1f} shows of a number
Rounded(x, scale) == (2 * x.num * scale + x.den) \div (2 * x.den)

Raised == [raised |-> TRUE, threats |-> <<>>]

Returned(lst) == [raised |-> FALSE, threats |-> lst]

\* _check_suspicious_file_access: the paths of the file_access events that
\* end in a suspicious extension; a path is (stem, extension)
SuspiciousFiles(evs) ==
    LET hits == SelectSeq(evs, LAMBDA e :
                    /\ Get(e, "event_type", "") = "file_access"
                    /\ "file_path" \in DOMAIN Get(e, "event_data", EmptyDict)
                    /\ e.event_data.file_path[2] \in suspicious_extensions)
    IN  [i \in 1 .. Len(hits) |-> hits[i].event_data.file_path]

\* _check_data_exfiltration_rules
CheckDataExfiltrationRules(analysis, evs) ==
    LET total_data_volume == Get(analysis, "total_data_volume", Zero)
        file_access_count == Get(analysis, "total_file_accesses", Zero)
        suspicious_files == SuspiciousFiles(evs)
        large ==
            IF RatLess(Int2Rat(large_file_access_threshold), total_data_volume)
            THEN <<NewThreat("data_exfiltration", <<"large_file_access">>,
                     "high", <<"Large Data Volume Access">>,
                     [text |-> "User accessed MB of data",
                      value |-> <<Rounded(RatDivInt(total_data_volume,
                                                    1000000), 10)>>],
                     [k \in {"total_data_volume"} |-> total_data_volume],
                     Rat(8, 10))>>
            ELSE <<>>
        bulk ==
            IF RatLess(Int2Rat(bulk_download_threshold), file_access_count)
            THEN <<NewThreat("data_exfiltration", <<"bulk_download">>,
                     "high", <<"Bulk File Download">>,
                     [text |-> "User accessed files in short timeframe",
                      value |-> <<file_access_count>>],
                     [k \in {"file_access_count"} |-> file_access_count],
                     Rat(7, 10))>>
            ELSE <<>>
        suspicious ==
            IF suspicious_files # <<>>
            THEN <<NewThreat("data_exfiltration", <<"suspicious_file_types">>,
                     "medium", <<"Suspicious File Type Access">>,
                     [text |-> "User accessed sensitive files",
                      value |-> <<Len(suspicious_files)>>],
                     [k \in {"suspicious_files"} |-> suspicious_files],
                     Rat(6, 10))>>
            ELSE <<>>
    IN  IF ~IsNumber(total_data_volume) \/ ~IsNumber(file_access_count)
        THEN Raised
        ELSE Returned(large \o bulk \o suspicious)

\* _check_policy_violation_rules
CheckPolicyViolationRules(analysis, evs) ==
    LET work_hours_ratio == Get(analysis, "work_hours_ratio", One)
        unique_locations == Get(analysis, "unique_login_locations", Zero)
        after_hours ==
            IF RatLess(work_hours_ratio, work_hours_ratio_threshold)
            THEN <<NewThreat("policy_violation", <<"after_hours_access">>,
                     "medium", <<"Excessive After-Hours Activity">>,
                     [text |-> "Only % of activity during work hours",
                      value |-> <<Rounded(work_hours_ratio, 1000)>>],
                     [k \in {"work_hours_ratio"} |-> work_hours_ratio],
                     Rat(7, 10))>>
            ELSE <<>>
        locations ==
            IF RatLess(Int2Rat(max_locations), unique_locations)
            THEN <<NewThreat("policy_violation", <<"multiple_locations">>,
                     "high", <<"Multiple Location Access">>,
                     [text |-> "User accessed from different locations",
                      value |-> <<unique_locations>>],
                     [k \in {"unique_locations"} |-> unique_locations],
                     Rat(8, 10))>>
            ELSE <<>>
    IN  IF ~IsNumber(work_hours_ratio) \/ ~IsNumber(unique_locations)
        THEN Raised
        ELSE Returned(after_hours \o locations)

\* _check_privilege_escalation_rules
CheckPrivilegeEscalationRules(analysis, evs) ==
    LET failed_attempts == Get(analysis, "failed_login_attempts", Zero)
    IN  IF ~IsNumber(failed_attempts) THEN Raised
        ELSE IF RatLess(Int2Rat(failed_login_threshold), failed_attempts)
        THEN Returned(<<NewThreat("privilege_escalation",
                          <<"failed_login_attempts">>, "medium",
                          <<"Multiple Failed Login Attempts">>,
                          [text |-> "User had failed login attempts",
                           value |-> <<failed_attempts>>],
                          [k \in {"failed_attempts"} |-> failed_attempts],
                          Rat(6, 10))>>)
        ELSE Returned(<<>>)

\* _rule_based_detection: the three rule sets in turn; an exception in any
\* of them loses what the earlier ones found
RuleBasedDetection(analysis, evs) ==
    LET data_threats == CheckDataExfiltrationRules(analysis, evs)
        policy_threats == CheckPolicyViolationRules(analysis, evs)
        privilege_threats == CheckPrivilegeEscalationRules(analysis, evs)
    IN  IF data_threats.raised \/ policy_threats.raised
           \/ privilege_threats.raised
        THEN Raised
        ELSE Returned(data_threats.threats \o policy_threats.threats
                         \o privilege_threats.threats)

\* threat_patterns, in the order of the dict; timeframe in seconds
threat_patterns ==
    <<[name |-> "data_exfiltration_pattern",
       sequence |-> <<"large_file_access", "external_transfer", "deletion">>,
       timeframe |-> 3600, severity |-> "critical"],
      [name |-> "insider_trading_pattern",
       sequence |-> <<"financial_data_access", "trading_platform_usage",
                      "unusual_timing">>,
       timeframe |-> 7200, severity |-> "critical"],
      [name |-> "reconnaissance_pattern",
       sequence |-> <<"directory_enumeration", "privilege_check",
                      "network_scan">>,
       timeframe |-> 1800, severity |-> "high"]>>

\* _pattern_to_threat_type
PatternToThreatType(pattern_name) ==
    CASE pattern_name = "data_exfiltration_pattern" -> "data_exfiltration"
      [] pattern_name = "insider_trading_pattern" -> "insider_trading"
      [] pattern_name = "reconnaissance_pattern" -> "privilege_escalation"
      [] OTHER -> "anomalous_behavior"

\* A timestamp is an ISO string.  The model writes one that fromisoformat
\* parses as its minute, and one that it does not parse as Unparseable.
Unparseable == 0 - 1

seconds_per_minute == 60

\* the events of a list under each of a set of timestamps, by ascending
\* timestamp, those under one timestamp in the order of the list
RECURSIVE ByTimestamp(_, _)
ByTimestamp(evs, keys) ==
    IF keys = {} THEN <<>>
    ELSE LET least == CHOOSE k \in keys : \A x \in keys : k <= x
         IN  SelectSeq(evs, LAMBDA e :
                "timestamp" \in DOMAIN e /\ e.timestamp = least)
                \o ByTimestamp(evs, keys \ {least})

\* sorted(events, key=lambda x: x.get('timestamp', '')): a stable sort; the
\* events without a timestamp have the key '' and come first
SortByTimestamp(evs) ==
    SelectSeq(evs, LAMBDA e : "timestamp" \notin DOMAIN e)
       \o ByTimestamp(evs, {evs[i].timestamp :
                               i \in {j \in 1 .. Len(evs) :
                                         "timestamp" \in DOMAIN evs[j]}})

\* the time fromisoformat gives an event: that of its timestamp, utcnow()
\* for an event without one
EventTime(e, time) == Get(e, "timestamp", time)

\* the loop of _group_events_by_time over the sorted events, a window at a
\* time: the window that starts at an event takes the events after it up to
\* the first one later than the timeframe after its start
RECURSIVE Windows(_, _, _, _)
Windows(sorted, from, timeframe, time) ==
    IF from > Len(sorted) THEN <<>>
    ELSE LET window_start == EventTime(sorted[from], time)
             beyond == {j \in from + 1 .. Len(sorted) :
                           (EventTime(sorted[j], time) - window_start)
                              * seconds_per_minute > timeframe}
             next == IF beyond = {} THEN Len(sorted) + 1
                     ELSE CHOOSE j \in beyond : \A x \in beyond : j <= x
         IN  <<SubSeq(sorted, from, next - 1)>>
                \o Windows(sorted, next, timeframe, time)

\* _group_events_by_time that groups only the events of the last timeframe
GroupEventsByTime_Recent(evs, timeframe, time) ==
    LET recent == SelectSeq(evs, LAMBDA e :
                      (time - EventTime(e, time)) * seconds_per_minute
                         <= timeframe)
    IN  IF recent = <<>> THEN <<>>
        ELSE Windows(SortByTimestamp(recent), 1, timeframe, time)

\* _group_events_by_time
GroupEventsByTime(evs, timeframe, time) ==
    IF evs = <<>> THEN <<>>
    ELSE Windows(SortByTimestamp(evs), 1, timeframe, time)

\* _matches_pattern that wants the items of the sequence in their order
MatchesPattern_InOrder(window_events, sequence) ==
    \E at \in [1 .. Len(sequence) -> 1 .. Len(window_events)] :
        /\ \A j \in 1 .. Len(sequence) - 1 : at[j] < at[j + 1]
        /\ \A j \in 1 .. Len(sequence) :
              Get(window_events[at[j]], "event_type", "") = sequence[j]

\* _matches_pattern: every item of the sequence is among the event types of
\* the window, in whatever order
MatchesPattern(window_events, sequence) ==
    \A j \in 1 .. Len(sequence) :
        \E i \in 1 .. Len(window_events) :
            Get(window_events[i], "event_type", "") = sequence[j]

\* _check_threat_pattern: one threat for each window that matches
CheckThreatPattern(pattern, evs, time) ==
    LET time_windows == GroupEventsByTime(evs, pattern.timeframe, time)
        matching == SelectSeq(time_windows,
                       LAMBDA w : MatchesPattern(w, pattern.sequence))
    IN  [i \in 1 .. Len(matching) |->
            NewThreat(PatternToThreatType(pattern.name), <<pattern.name>>,
               pattern.severity,
               <<"Threat Pattern Detected", pattern.name>>,
               [text |-> "Event sequence matches pattern",
                value |-> <<pattern.name>>],
               [k \in {"pattern", "events"} |->
                   IF k = "pattern" THEN pattern.sequence
                   ELSE <<Len(matching[i])>>],
               Rat(9, 10))]

RECURSIVE PatternThreats(_, _, _)
PatternThreats(i, evs, time) ==
    IF i > Len(threat_patterns) THEN <<>>
    ELSE CheckThreatPattern(threat_patterns[i], evs, time)
            \o PatternThreats(i + 1, evs, time)

\* _pattern_based_detection
PatternBasedDetection(evs, time) ==
    IF \E i \in 1 .. Len(evs) :
          "timestamp" \in DOMAIN evs[i] /\ evs[i].timestamp = Unparseable
    THEN Raised
    ELSE Returned(PatternThreats(1, evs, time))

\* the threat _anomaly_based_detection makes of one entry of 'anomalies'
AnomalyThreat(anomaly) ==
    NewThreat("anomalous_behavior", <<"anomaly", anomaly.type>>,
       Get(anomaly, "severity", "medium"),
       <<"Behavioral Anomaly", anomaly.type>>,
       Get(anomaly, "description",
           [text |-> "Behavioral anomaly detected", value |-> <<>>]),
       anomaly, Rat(7, 10))

\* _anomaly_based_detection
AnomalyBasedDetection(analysis) ==
    LET anomaly_score == Get(analysis, "anomaly_score", Zero)
        anomalies == Get(analysis, "anomalies", <<>>)
        high ==
            IF RatLess(Rat(8, 10), anomaly_score)
            THEN <<NewThreat("anomalous_behavior", <<"high_anomaly_score">>,
                     "high", <<"High Behavioral Anomaly">>,
                     [text |-> "User behavior anomaly score",
                      value |-> <<Rounded(anomaly_score, 100)>>],
                     [k \in {"anomaly_score"} |-> anomaly_score],
                     anomaly_score)>>
            ELSE <<>>
    IN  IF ~IsNumber(anomaly_score)
           \/ \E i \in 1 .. Len(anomalies) : "type" \notin DOMAIN anomalies[i]
        THEN Raised
        ELSE Returned(high \o [i \in 1 .. Len(anomalies) |->
                                  AnomalyThreat(anomalies[i])])

\* risk_models['behavioral_weights']
behavioral_weights ==
    [anomaly_score |-> Rat(4, 10), policy_violations |-> Rat(3, 10),
     data_access_patterns |-> Rat(2, 10), login_anomalies |-> Rat(1, 10)]

\* _calculate_ml_risk_score that takes the data volume as it is, in units
\* of 100 MB
CalculateMlRiskScore_VolumeUnbounded(analysis) ==
    LET anomaly_score == Get(analysis, "anomaly_score", Zero)
        work_hours_ratio == Get(analysis, "work_hours_ratio", One)
        failed_login_rate ==
            RatComplement(Get(analysis, "login_success_rate", One))
        data_volume ==
            RatDivInt(Get(analysis, "total_data_volume", Zero), 100000000)
    IN  RatMin(One,
           RatAdd(RatAdd(RatMul(anomaly_score,
                                behavioral_weights.anomaly_score),
                         RatMul(RatComplement(work_hours_ratio),
                                behavioral_weights.policy_violations)),
                  RatAdd(RatMul(data_volume,
                                behavioral_weights.data_access_patterns),
                         RatMul(failed_login_rate,
                                behavioral_weights.login_anomalies))))

\* _calculate_ml_risk_score, for ratios and rates within [0, 1]
CalculateMlRiskScore(analysis) ==
    LET anomaly_score == Get(analysis, "anomaly_score", Zero)
        work_hours_ratio == Get(analysis, "work_hours_ratio", One)
        failed_login_rate ==
            RatComplement(Get(analysis, "login_success_rate", One))
        data_volume ==
            RatMin(One, RatDivInt(Get(analysis, "total_data_volume", Zero),
                                  100000000))
    IN  RatMin(One,
           RatAdd(RatAdd(RatMul(anomaly_score,
                                behavioral_weights.anomaly_score),
                         RatMul(RatComplement(work_hours_ratio),
                                behavioral_weights.policy_violations)),
                  RatAdd(RatMul(data_volume,
                                behavioral_weights.data_access_patterns),
                         RatMul(failed_login_rate,
                                behavioral_weights.login_anomalies))))

\* _ml_based_detection
MlBasedDetection(analysis) ==
    IF \E k \in {"anomaly_score", "work_hours_ratio", "login_success_rate",
                 "total_data_volume"} :
          k \in DOMAIN analysis /\ ~IsNumber(analysis[k])
    THEN Raised
    ELSE LET risk_score == CalculateMlRiskScore(analysis)
         IN  IF RatLess(Rat(75, 100), risk_score)
             THEN Returned(<<NewThreat("anomalous_behavior",
                               <<"ml_high_risk">>, "high",
                               <<"ML Model High Risk Score">>,
                               [text |-> "ML model calculated high risk score",
                                value |-> <<Rounded(risk_score, 100)>>],
                               [k \in {"ml_risk_score"} |-> risk_score],
                               risk_score)>>)
             ELSE Returned(<<>>)

-----------------------------------------------------------------------------
(* The anomaly entries of an analysis, as the analyzer writes them.  The    *)
(* list 'features_involved' is the set of its members: nothing reads its   *)
(* order.                                                                  *)

\* _identify_anomalies
IdentifyAnomalies(features, anomaly_score) ==
    LET high ==
            IF RatLess(Rat(7, 10), anomaly_score)
            THEN <<[type |-> "high_anomaly_score", severity |-> "high",
                    description |->
                        [text |-> "Overall behavior anomaly score is",
                         value |-> <<Rounded(anomaly_score, 100)>>],
                    features_involved |-> DOMAIN features]>>
            ELSE <<>>
        locations ==
            IF RatLess(Int2Rat(5), Get(features, "unique_login_locations",
                                       Zero))
            THEN <<[type |-> "multiple_locations", severity |-> "medium",
                    description |->
                        [text |-> "User logged in from different locations",
                         value |-> <<features.unique_login_locations>>],
                    features_involved |-> {"unique_login_locations"}]>>
            ELSE <<>>
        transfer ==
            IF RatLess(Int2Rat(10000000), Get(features, "total_data_volume",
                                              Zero))
            THEN <<[type |-> "large_data_transfer", severity |-> "high",
                    description |->
                        [text |-> "Large data transfer detected: bytes",
                         value |-> <<features.total_data_volume>>],
                    features_involved |-> {"total_data_volume"}]>>
            ELSE <<>>
    IN  high \o locations \o transfer

-----------------------------------------------------------------------------
(* Correlation on its own: every list of up to MaxEmitted different        *)
(* threats, taken from what the four strategies emit for a user who trips  *)
(* every rule, is correlated once.                                         *)

MaxEmitted == 3

\* features of a batch that trips every rule of the detector
SampleFeatures ==
    [total_data_volume |-> Int2Rat(120000000),
     total_file_accesses |-> Int2Rat(60),
     work_hours_ratio |-> Rat(1, 5),
     unique_login_locations |-> Int2Rat(6),
     failed_login_attempts |-> Int2Rat(4),
     login_success_rate |-> Zero]

\* the analysis of that batch by a baseline that finds it anomalous
SampleAnalysis ==
    [k \in DOMAIN SampleFeatures \cup {"anomaly_score", "anomalies"} |->
        IF k = "anomaly_score" THEN Rat(9, 10)
        ELSE IF k = "anomalies"
        THEN IdentifyAnomalies(SampleFeatures, Rat(9, 10))
        ELSE SampleFeatures[k]]

\* a sensitive file read, then a reconnaissance within three minutes
SampleEvents ==
    <<[event_type |-> "file_access", timestamp |-> 0,
       event_data |-> [file_path |-> <<"customers", ".csv">>]],
      [event_type |-> "directory_enumeration", timestamp |-> 1],
      [event_type |-> "privilege_check", timestamp |-> 2],
      [event_type |-> "network_scan", timestamp |-> 3]>>

\* what the four strategies emit for the sample, in their order
SampleEmitted ==
    RuleBasedDetection(SampleAnalysis, SampleEvents).threats
       \o PatternBasedDetection(SampleEvents, 0).threats
       \o AnomalyBasedDetection(SampleAnalysis).threats
       \o MlBasedDetection(SampleAnalysis).threats

\* the lists of n different members of a set
RECURSIVE Lists(_, _)
Lists(S, n) ==
    IF n = 0 THEN {<<>>}
    ELSE {Append(l, x) : l \in Lists(S, n - 1), x \in S} \ 
         {l \in {Append(l, x) : l \in Lists(S, n - 1), x \in S} :
             \E i, j \in 1 .. Len(l) : i < j /\ l[i] = l[j]}

EmittedLists == UNION {Lists(Range(SampleEmitted), n) : n \in 0 .. MaxEmitted}

CorrelateInit ==
    /\ now = 0
    /\ rate_limiters = EmptyDict
    /\ alert_history = EmptyDict
    /\ env = EnvUserCap
    /\ notification_channels = env.channels
    /\ call = [p \in Procs |-> Idle]
    /\ created = EmptyDict
    /\ events = <<>>
    /\ behavioral_analysis = EmptyDict
    /\ threats \in EmittedLists
    /\ baseline_models = EmptyDict
    /\ baseline_cache = EmptyDict
    /\ runs = <<>>
    /\ stage = "emitted"
    /\ submitted = 0

\* correlated_threats = await self._correlate_threats(threats)
Correlate ==
    /\ stage = "emitted"
    /\ stage' = "correlated"
    /\ runs' = Append(runs, [emitted |-> threats,
                             result |-> CorrelateThreats(threats)])
    /\ UNCHANGED <<now, rate_limiters, alert_history, notification_channels,
                   call, created, env, events, behavioral_analysis, threats,
                   baseline_models, baseline_cache, submitted>>

CorrelateSpec == CorrelateInit /\ [][Correlate]_vars

-----------------------------------------------------------------------------
(* Correlation: vocabulary                                                 *)

\* the members of a list that have a threat type, in the order of the list
OfType(lst, threat_type) ==
    {i \in 1 .. Len(lst) : lst[i].threat_type = threat_type}

TypesOf(lst) == {lst[i].threat_type : i \in 1 .. Len(lst)}

\* t is the merge of the members M of lst: the base record of a member of
\* highest severity, the union of the evidence, the mean of the confidences,
\* every title in the description
IsMergeOf(t, lst, M) ==
    /\ \E b \in M :
          /\ \A i \in M : SeverityRank(lst[i].severity)
                             <= SeverityRank(lst[b].severity)
          /\ t.severity = lst[b].severity
          /\ t.title = lst[b].title
          /\ t.threat_type = lst[b].threat_type
          /\ DOMAIN t = DOMAIN lst[b]
    /\ DOMAIN t.evidence = UNION {DOMAIN lst[i].evidence : i \in M}
    /\ \A k \in DOMAIN t.evidence :
          \E i \in M : k \in DOMAIN lst[i].evidence
                       /\ t.evidence[k] = lst[i].evidence[k]
    /\ RatMul(t.confidence, Int2Rat(Cardinality(M)))
          = SumConfidence([j \in 1 .. Len(lst) |->
                              IF j \in M THEN lst[j]
                              ELSE [confidence |-> Zero]], 1)
    /\ Range(t.description.value) = {lst[i].title : i \in M}
    /\ Len(t.description.value) = Cardinality(M)

\* C13: correlation returns one threat for each threat type among the
\* emitted threats; a type emitted once passes through unchanged, and a type
\* emitted more than once becomes one threat with the base record and
\* severity of a member of highest severity, the union of the members'
\* evidence, the mean of their confidences and a description that lists
\* every member's title.
C13_OnePerTypeMerged ==
    \A r \in 1 .. Len(runs) :
        LET emitted == runs[r].emitted
            result == runs[r].result
        IN  /\ TypesOf(result) = TypesOf(emitted)
            /\ Len(result) = Cardinality(TypesOf(emitted))
            /\ \A i \in 1 .. Len(result) :
                  LET M == OfType(emitted, result[i].threat_type)
                  IN  IF Cardinality(M) = 1
                      THEN \A j \in M : result[i] = emitted[j]
                      ELSE IsMergeOf(result[i], emitted, M)

\* a medium and then a high data-exfiltration threat were merged, next to a
\* threat of another type that passed through
C13_Witness ==
    \E r \in 1 .. Len(runs) :
        /\ Len(runs[r].emitted) = 3
        /\ Len(runs[r].result) = 2
        /\ \E i, j \in 1 .. 3 :
              /\ i < j
              /\ runs[r].emitted[i].threat_type = "data_exfiltration"
              /\ runs[r].emitted[j].threat_type = "data_exfiltration"
              /\ runs[r].emitted[i].severity = "medium"
              /\ runs[r].emitted[j].severity = "high"
        /\ \E i \in 1 .. 2 :
              /\ runs[r].result[i].severity = "high"
              /\ runs[r].result[i].rule_id = <<"merged", "data_exfiltration">>

\* the orders in which the members of a list of different threats can be fed
Orders(lst) == Lists(Range(lst), Len(lst))

\* C14: correlation does not depend on the order of its input: every
\* permutation of the emitted threats correlates to the same set of threats
\* with the same content.
C14_OrderIndependent ==
    \A r \in 1 .. Len(runs) :
        \A perm \in Orders(runs[r].emitted) :
            Range(CorrelateThreats(perm)) = Range(runs[r].result)

-----------------------------------------------------------------------------
(* detect_threats.  Its coroutines never suspend, so a run is one step.     *)
(* The model's analyses carry string severities and numeric confidences,   *)
(* with which correlation and scoring do not raise: the except clause of   *)
(* detect_threats itself is not entered.                                   *)

MaxRuns == 2

\* a severity_multiplier of 1.0 for every severity
SeverityWeight_Unweighted(severity) == One

\* severity_multiplier
SeverityWeight(severity) ==
    CASE severity = "low" -> Rat(3, 10) [] severity = "medium" -> Rat(6, 10)
      [] severity = "high" -> Rat(8, 10) [] severity = "critical" -> One
      [] OTHER -> Rat(6, 10)

\* _calculate_risk_scores that leaves the severity out
CalculateRiskScores_ConfidenceOnly(lst, time) ==
    [i \in 1 .. Len(lst) |->
        [k \in DOMAIN lst[i] \cup {"risk_score", "timestamp"} |->
            IF k = "risk_score" THEN RatMin(One, lst[i].confidence)
            ELSE IF k = "timestamp" THEN time
            ELSE lst[i][k]]]

\* _calculate_risk_scores: every threat gets its risk score and the time of
\* the run
CalculateRiskScores(lst, time) ==
    [i \in 1 .. Len(lst) |->
        [k \in DOMAIN lst[i] \cup {"risk_score", "timestamp"} |->
            IF k = "risk_score"
            THEN RatMin(One, RatMul(lst[i].confidence,
                                    SeverityWeight(lst[i].severity)))
            ELSE IF k = "timestamp" THEN time
            ELSE lst[i][k]]]

\* the four strategies of detect_threats, in the order it calls them
Strategies == <<"rule", "pattern", "anomaly", "ml">>

\* what each strategy returns to detect_threats
StrategyOutcome(strategy, analysis, evs, time) ==
    CASE strategy = "rule" -> RuleBasedDetection(analysis, evs)
      [] strategy = "pattern" -> PatternBasedDetection(evs, time)
      [] strategy = "anomaly" -> AnomalyBasedDetection(analysis)
      [] strategy = "ml" -> MlBasedDetection(analysis)

\* threats.extend(...) for the four strategies in turn
Emitted(analysis, evs, time) ==
    StrategyOutcome("rule", analysis, evs, time).threats
       \o StrategyOutcome("pattern", analysis, evs, time).threats
       \o StrategyOutcome("anomaly", analysis, evs, time).threats
       \o StrategyOutcome("ml", analysis, evs, time).threats

\* detect_threats that gives up when a strategy has raised
DetectedThreats_AllOrNothing(analysis, evs, time) ==
    IF \E i \in 1 .. Len(Strategies) :
          StrategyOutcome(Strategies[i], analysis, evs, time).raised
    THEN <<>>
    ELSE CalculateRiskScores(CorrelateThreats(Emitted(analysis, evs, time)),
                             time)

\* the list detect_threats returns
DetectedThreats(analysis, evs, time) ==
    CalculateRiskScores(CorrelateThreats(Emitted(analysis, evs, time)), time)

\* what a call of detect_threats did: which strategies raised, what each
\* contributed, and the list it returned
RunOf(analysis, evs, time) ==
    [time |-> time,
     raised |-> {Strategies[i] : i \in
                    {j \in 1 .. Len(Strategies) :
                        StrategyOutcome(Strategies[j], analysis, evs,
                                        time).raised}},
     emitted |-> [i \in 1 .. Len(Strategies) |->
                     StrategyOutcome(Strategies[i], analysis, evs,
                                     time).threats],
     result |-> DetectedThreats(analysis, evs, time)]

\* one call of detect_threats on the analysis and the events at hand
DetectThreats ==
    /\ stage = "detect"
    /\ Len(runs) < MaxRuns
    /\ LET run == RunOf(behavioral_analysis, events, now)
       IN  /\ threats' = run.result
           /\ runs' = Append(runs, run)
    /\ UNCHANGED <<now, rate_limiters, alert_history, notification_channels,
                   call, created, env, events, behavioral_analysis,
                   baseline_models, baseline_cache, stage, submitted>>

\* the union of dicts with different keys
Merge(d1, d2) ==
    [k \in DOMAIN d1 \cup DOMAIN d2 |-> IF k \in DOMAIN d1 THEN d1[k]
                                        ELSE d2[k]]

\* an anomaly entry that lacks its 'type'
UntypedAnomaly ==
    [severity |-> "high",
     description |-> [text |-> "Untyped", value |-> <<>>]]

\* the analyses handed to the detector: file and network figures, login
\* figures, the work-hours ratio, the anomaly score and the anomaly entries,
\* each missing, sound or defective
FileFigures ==
    {EmptyDict,
     [total_file_accesses |-> Int2Rat(60),
      total_data_volume |-> Int2Rat(120000000)],
     [total_file_accesses |-> Int2Rat(60), total_data_volume |-> NotANumber]}

LoginFigures ==
    {EmptyDict,
     [unique_login_locations |-> Int2Rat(6),
      failed_login_attempts |-> Int2Rat(4), login_success_rate |-> Zero],
     [unique_login_locations |-> Int2Rat(6),
      failed_login_attempts |-> NotANumber, login_success_rate |-> Zero],
     [unique_login_locations |-> Int2Rat(6),
      failed_login_attempts |-> Int2Rat(4),
      login_success_rate |-> NotANumber]}

TimingFigures == {EmptyDict, [work_hours_ratio |-> Rat(1, 5)]}

AnomalyScores == {Rat(3, 10), Rat(9, 10), Rat(3, 2), NotANumber}

AnomalyLists(features, anomaly_score) ==
    {<<>>,
     IdentifyAnomalies(features,
                       IF IsNumber(anomaly_score) THEN anomaly_score
                       ELSE Zero),
     <<UntypedAnomaly>>}

Analyses ==
    UNION {{Merge(features, [anomaly_score |-> a, anomalies |-> l]) :
               l \in AnomalyLists(features, a)} :
           features \in {Merge(Merge(f, g), h) : f \in FileFigures,
                            g \in LoginFigures, h \in TimingFigures},
           a \in AnomalyScores}

\* the event batches handed to the detector: none; a reconnaissance; a
\* reconnaissance whose first event has no timestamp; a sensitive file read
\* and an event whose timestamp does not parse
EventBatches ==
    {<<>>,
     SampleEvents,
     <<[event_type |-> "directory_enumeration"],
       [event_type |-> "privilege_check", timestamp |-> 32],
       [event_type |-> "network_scan", timestamp |-> 33]>>,
     <<[event_type |-> "file_access", timestamp |-> 0,
        event_data |-> [file_path |-> <<"ledger", ".xlsx">>]],
       [event_type |-> "login_event", timestamp |-> Unparseable]>>}

EnvDetect ==
    [users |-> {"u1"}, types |-> {"data_exfiltration"},
     threats |-> {Qualifying}, step |-> 35, until |-> 35, batch |-> 1,
     channels |-> DefaultChannels]

DetectInit ==
    /\ now = 0
    /\ rate_limiters = EmptyDict
    /\ alert_history = EmptyDict
    /\ env = EnvDetect
    /\ notification_channels = env.channels
    /\ call = [p \in Procs |-> Idle]
    /\ created = EmptyDict
    /\ events \in EventBatches
    /\ behavioral_analysis \in Analyses
    /\ threats = <<>>
    /\ baseline_models = EmptyDict
    /\ baseline_cache = EmptyDict
    /\ runs = <<>>
    /\ stage = "detect"
    /\ submitted = 0

DetectNext == DetectThreats \/ Tick

DetectSpec == DetectInit /\ [][DetectNext]_vars

-----------------------------------------------------------------------------
(* detect_threats: vocabulary                                              *)

\* a threat without the time of the run that found it
Unstamped(t) == [k \in DOMAIN t \ {"timestamp"} |-> t[k]]

UnstampedSet(lst) == {Unstamped(lst[i]) : i \in 1 .. Len(lst)}

\* every event carries a timestamp, as an Event does
AllTimestamped(evs) ==
    \A i \in 1 .. Len(evs) : "timestamp" \in DOMAIN evs[i]

\* a step that is a run of detect_threats
Detects == Len(runs') = Len(runs) + 1

\* C15: a run of detect_threats leaves the analysis, its anomaly entries,
\* the events and the detector's state as they were, and for events that
\* all carry a timestamp it returns the threats of every earlier run on the
\* same input, alike in every field but the timestamp, which is the time of
\* the run.
C15_SameThreatsButForTimestamp ==
    [][Detects =>
          /\ behavioral_analysis' = behavioral_analysis
          /\ events' = events
          /\ baseline_cache' = baseline_cache
          /\ \A i \in 1 .. Len(runs'[Len(runs')].result) :
                runs'[Len(runs')].result[i].timestamp = now
          /\ AllTimestamped(events) =>
                \A r \in 1 .. Len(runs) :
                    UnstampedSet(runs'[Len(runs')].result)
                       = UnstampedSet(runs[r].result)]_vars

\* two runs at different times on timestamped events, a merged threat among
\* those of each
C15_Witness ==
    /\ Len(runs) = 2
    /\ runs[1].time # runs[2].time
    /\ AllTimestamped(events)
    /\ events # <<>>
    /\ \E i \in 1 .. Len(runs[1].result) :
          /\ runs[1].result[i].rule_id = <<"merged", "privilege_escalation">>
          /\ runs[1].result[i].timestamp = runs[1].time
    /\ \E i \in 1 .. Len(runs[2].result) :
          /\ runs[2].result[i].rule_id = <<"merged", "privilege_escalation">>
          /\ runs[2].result[i].timestamp = runs[2].time

\* C15 as stated: two runs on the same analysis and events return the same
\* set of threats.
C15_IdenticalThreats ==
    \A r1, r2 \in 1 .. Len(runs) :
        Range(runs[r1].result) = Range(runs[r2].result)

\* a number of [0, 1]
InUnit(x) == IsNumber(x) /\ 0 <= x.num /\ x.num <= x.den

\* the anomaly score, the work-hours ratio and the login success rate of an
\* analysis, where it has them, lie in [0, 1]
UnitAnalysis(analysis) ==
    \A k \in {"anomaly_score", "work_hours_ratio", "login_success_rate"} :
        k \in DOMAIN analysis => InUnit(analysis[k])

\* the weight of a severity: low 0.3, medium 0.6, high 0.8, critical 1.0
WeightTenths(severity) ==
    CASE severity = "low" -> 3 [] severity = "medium" -> 6
      [] severity = "high" -> 8 [] severity = "critical" -> 10

\* C16: for an analysis whose anomaly score, work-hours ratio and login
\* success rate lie in [0, 1], every threat detect_threats returns has a
\* confidence and a risk score in [0, 1], and the risk score is the final
\* confidence times the weight of the final severity.
C16_RiskIsConfidenceTimesWeight ==
    UnitAnalysis(behavioral_analysis) =>
        \A r \in 1 .. Len(runs) :
            \A i \in 1 .. Len(runs[r].result) :
                LET t == runs[r].result[i]
                IN  /\ InUnit(t.confidence)
                    /\ InUnit(t.risk_score)
                    /\ t.risk_score.num * t.confidence.den * 10
                          = t.confidence.num * WeightTenths(t.severity)
                               * t.risk_score.den

\* large_file_access and bulk_download were merged at confidence 0.75 and
\* scored 0.6, next to a medium threat scored 0.36
C16_Witness ==
    /\ UnitAnalysis(behavioral_analysis)
    /\ \E r \in 1 .. Len(runs) :
          /\ \E i \in 1 .. Len(runs[r].result) :
                /\ runs[r].result[i].rule_id = <<"merged", "data_exfiltration">>
                /\ runs[r].result[i].severity = "high"
                /\ runs[r].result[i].confidence = Rat(3, 4)
                /\ runs[r].result[i].risk_score = Rat(3, 5)
          /\ \E i \in 1 .. Len(runs[r].result) :
                /\ runs[r].result[i].severity = "medium"
                /\ runs[r].result[i].risk_score = Rat(36, 100)

\* what the strategies that did not raise emitted in a run, in their order
RECURSIVE EmittedByOthers(_, _)
EmittedByOthers(run, i) ==
    IF i > Len(Strategies) THEN <<>>
    ELSE (IF Strategies[i] \in run.raised THEN <<>> ELSE run.emitted[i])
            \o EmittedByOthers(run, i + 1)

\* the scored correlation of a list of threats, spelled out: one threat for
\* each type, merged where the type has several, each with its risk score
IsScoredCorrelationOf(result, lst) ==
    /\ TypesOf(result) = TypesOf(lst)
    /\ Len(result) = Cardinality(TypesOf(lst))
    /\ \A i \in 1 .. Len(result) :
          LET M == OfType(lst, result[i].threat_type)
              t == [k \in DOMAIN result[i] \ {"risk_score", "timestamp"} |->
                       result[i][k]]
          IN  /\ IF Cardinality(M) = 1 THEN \A j \in M : t = lst[j]
                 ELSE IsMergeOf(t, lst, M)
              /\ {"risk_score", "timestamp"} \subseteq DOMAIN result[i]

\* C17: when a strategy raises during detect_threats, the other strategies
\* run to their end and the call returns the scored correlation of their
\* threats, nothing of the failing strategy among them.
C17_OtherStrategiesStillCount ==
    \A r \in 1 .. Len(runs) :
        /\ \A i \in 1 .. Len(Strategies) :
              Strategies[i] \in runs[r].raised => runs[r].emitted[i] = <<>>
        /\ IsScoredCorrelationOf(runs[r].result,
                                 EmittedByOthers(runs[r], 1))

\* the rule-based strategy alone raised, on a failed-login count that is no
\* number, after its volume rule had fired; the pattern, anomaly and ML
\* threats were returned
C17_Witness ==
    \E r \in 1 .. Len(runs) :
        /\ runs[r].raised = {"rule"}
        /\ ~IsNumber(Get(behavioral_analysis, "failed_login_attempts", Zero))
        /\ RatLess(Int2Rat(large_file_access_threshold),
                   Get(behavioral_analysis, "total_data_volume", Zero))
        /\ runs[r].emitted[2] # <<>>
        /\ runs[r].emitted[3] # <<>>
        /\ runs[r].emitted[4] # <<>>
        /\ {runs[r].result[i].threat_type : i \in 1 .. Len(runs[r].result)}
              = {"privilege_escalation", "anomalous_behavior"}

-----------------------------------------------------------------------------
(* Eleven threats for one user within the hour.  A script is a list of     *)
(* calls of process_threats, each at its minute with the threat types of   *)
(* its batch; every threat is medium and qualifying, and a call has        *)
(* returned before the minute is over.                                     *)

ScriptLength == 11

\* the first n threat types, in a fixed order
TypeList ==
    <<"data_exfiltration", "insider_trading", "policy_violation",
      "anomalous_behavior", "privilege_escalation", "malware_activity",
      "lateral_movement">>

ScriptCall(at, types) == [at |-> at, types |-> types]

\* three types at minutes 0, 15 and 30, two of them at minute 45
ScriptRounds ==
    <<ScriptCall(0, SubSeq(TypeList, 1, 3)),
      ScriptCall(15, SubSeq(TypeList, 1, 3)),
      ScriptCall(30, SubSeq(TypeList, 1, 3)),
      ScriptCall(45, SubSeq(TypeList, 1, 2))>>

\* the seven types at minute 0, four of them at minute 15
ScriptSpread ==
    <<ScriptCall(0, TypeList), ScriptCall(15, SubSeq(TypeList, 1, 4))>>

\* one batch of eleven: the seven types, then four of them again
ScriptOneBatch == <<ScriptCall(0, TypeList \o SubSeq(TypeList, 1, 4))>>

\* one type: three calls at minute 0, then two in every quarter of an hour
ScriptOneType ==
    <<ScriptCall(0, SubSeq(TypeList, 1, 1)),
      ScriptCall(0, SubSeq(TypeList, 1, 1)),
      ScriptCall(0, SubSeq(TypeList, 1, 1)),
      ScriptCall(15, <<TypeList[1], TypeList[1]>>),
      ScriptCall(15, <<TypeList[1], TypeList[1]>>),
      ScriptCall(30, <<TypeList[1], TypeList[1]>>),
      ScriptCall(45, <<TypeList[1], TypeList[1]>>)>>

Scripts == {ScriptRounds, ScriptSpread, ScriptOneBatch, ScriptOneType}

EnvScript(script) ==
    [users |-> {"u1"}, types |-> ThreatTypes, threats |-> {Qualifying},
     step |-> 15, until |-> 45, batch |-> ScriptLength,
     channels |-> LiveChannels, script |-> script]

ScriptInit ==
    /\ now = 0
    /\ rate_limiters = EmptyDict
    /\ alert_history = EmptyDict
    /\ env \in {EnvScript(script) : script \in Scripts}
    /\ notification_channels = env.channels
    /\ call = [p \in Procs |-> Idle]
    /\ created = EmptyDict
    /\ events = <<>>
    /\ behavioral_analysis = EmptyDict
    /\ threats = <<>>
    /\ baseline_models = EmptyDict
    /\ baseline_cache = EmptyDict
    /\ runs = <<>>
    /\ stage = "script"
    /\ submitted = 0

\* the threats of the calls of a script before its call k
RECURSIVE ThreatsBefore(_, _)
ThreatsBefore(script, k) ==
    IF k = 1 THEN 0
    ELSE ThreatsBefore(script, k - 1) + Len(script[k - 1].types)

\* the next call of the script, at its minute
ScriptedCall ==
    \E k \in 1 .. Len(env.script) :
        /\ stage = "script"
        /\ \A q \in Procs : call[q].pc = "idle"
        /\ ThreatsBefore(env.script, k) = submitted
        /\ now = env.script[k].at
        /\ ProcessThreats(1, "u1",
              [i \in 1 .. Len(env.script[k].types) |->
                  Threat(env.script[k].types[i], Qualifying)])
        /\ submitted' = submitted + Len(env.script[k].types)
        /\ UNCHANGED stage

\* the clock moves between calls
ScriptTick == (\A q \in Procs : call[q].pc = "idle") /\ Tick

ScriptNext == ScriptedCall \/ RunTasks \/ Answer \/ Continue \/ ScriptTick

ScriptSpec == ScriptInit /\ [][ScriptNext]_vars

\* the threats of a script one by one, each with its type and its minute
RECURSIVE ScriptThreats(_, _)
ScriptThreats(script, k) ==
    IF k > Len(script) THEN <<>>
    ELSE [i \in 1 .. Len(script[k].types) |->
             [threat_type |-> script[k].types[i], at |-> script[k].at]]
            \o ScriptThreats(script, k + 1)

\* no threat of a script follows another of its type by less than the
\* cooldown, and no type occurs more often than the type cap allows
Spaced(script) ==
    LET ts == ScriptThreats(script, 1)
    IN  /\ \A i, j \in 1 .. Len(ts) :
              i < j /\ ts[i].threat_type = ts[j].threat_type
                 => ts[j].at - ts[i].at >= cooldown_minutes
        /\ \A i \in 1 .. Len(ts) :
              Cardinality({j \in 1 .. Len(ts) :
                              ts[j].threat_type = ts[i].threat_type})
                 <= per_threat_type_per_hour

\* every threat of the script has been submitted and the last call is
\* through its loop
ScriptDone ==
    /\ stage = "script"
    /\ submitted = ScriptLength
    /\ \A p \in Procs : call[p].pc \in {"idle", "return"}

AlertCount == Sum(created, DOMAIN created)

\* C19: eleven qualifying medium threats for one user within the hour give
\* at most ten alerts, and exactly ten when no two of a type are closer than
\* the cooldown and no type exceeds its own cap: then only the eleventh is
\* dropped, by the per-user cap.
C19_AtMostTenAlerts ==
    ScriptDone =>
        /\ AlertCount <= per_user_per_hour
        /\ Spaced(env.script) => AlertCount = per_user_per_hour

\* three types in each of three quarters of an hour gave nine alerts; in
\* the fourth the first threat gave the tenth and the second met the cap
C19_Witness ==
    /\ ScriptDone
    /\ env.script = ScriptRounds
    /\ Spaced(env.script)
    /\ AlertCount = 10
    /\ call[1].pc = "return"
    /\ call[1].gates = <<"alert", "rate_limit">>

\* C19 as stated: the eleven threats give exactly ten alerts.
C19_ExactlyTenAlerts ==
    ScriptDone => AlertCount = 10

-----------------------------------------------------------------------------
(* The behavioral analyzer.  A timestamp is the minute of the day, so its   *)
(* hour is the minute over sixty.  Batches hold file, network and login    *)
(* events; the statistics of the intervals between events, which nothing   *)
(* reads, are left out of the features.  A fitted baseline model is        *)
(* opaque: what its decision_function returns, or that it raises, is       *)
(* chosen from RawDecisions, its value in hundredths.                      *)

HourOf(minute) == (minute \div 60) % 24

\* the events of a batch that have an event type: events_by_type[event_type]
EventsOfType(evs, event_type) ==
    SelectSeq(evs, LAMBDA e : Get(e, "event_type", "unknown") = event_type)

\* the values under a key of the event data of a list of events
DataValues(evs, key) ==
    LET having == SelectSeq(evs, LAMBDA e :
                      key \in DOMAIN Get(e, "event_data", EmptyDict))
    IN  [i \in 1 .. Len(having) |-> having[i].event_data[key]]

\* np.sum of the values from lo to hi, by halves
RECURSIVE SumOf(_, _, _)
SumOf(values, lo, hi) ==
    IF lo > hi THEN 0
    ELSE IF lo = hi THEN values[lo]
    ELSE SumOf(values, lo, (lo + hi) \div 2)
            + SumOf(values, (lo + hi) \div 2 + 1, hi)

\* np.max of a list that is not empty
MaxOf(values) ==
    CHOOSE v \in Range(values) : \A x \in Range(values) : x <= v

\* the sum, mean and maximum of a list of sizes under three keys, or no
\* keys for no sizes
Statistics(values, total, avg, max) ==
    IF values = <<>> THEN EmptyDict
    ELSE [k \in {total, avg, max} |->
             IF k = total THEN Int2Rat(SumOf(values, 1, Len(values)))
             ELSE IF k = avg THEN Rat(SumOf(values, 1, Len(values)),
                                      Len(values))
             ELSE Int2Rat(MaxOf(values))]

\* _extract_file_features
ExtractFileFeatures(evs) ==
    IF evs = <<>> THEN EmptyDict
    ELSE Merge([unique_file_types |->
                   Int2Rat(Cardinality(Range(DataValues(evs, "file_type")))),
                total_file_accesses |-> Int2Rat(Len(evs)),
                unique_files_accessed |->
                   Int2Rat(Cardinality(Range(DataValues(evs, "file_path"))))],
               Statistics(DataValues(evs, "file_size"), "total_file_size",
                          "avg_file_size", "max_file_size"))

\* _extract_network_features
ExtractNetworkFeatures(evs) ==
    IF evs = <<>> THEN EmptyDict
    ELSE Merge([unique_domains |->
                   Int2Rat(Cardinality(Range(DataValues(evs, "domain")))),
                unique_protocols |->
                   Int2Rat(Cardinality(Range(DataValues(evs, "protocol")))),
                total_network_requests |-> Int2Rat(Len(evs))],
               Statistics(DataValues(evs, "data_volume"), "total_data_volume",
                          "avg_data_volume", "max_data_volume"))

\* _extract_login_features
ExtractLoginFeatures(evs) ==
    IF evs = <<>> THEN EmptyDict
    ELSE LET failed_attempts ==
                 Len(SelectSeq(evs, LAMBDA e :
                        Get(Get(e, "event_data", EmptyDict), "success", TRUE)
                           = FALSE))
         IN  [unique_login_locations |->
                 Int2Rat(Cardinality(Range(DataValues(evs, "location")))),
              unique_devices |->
                 Int2Rat(Cardinality(Range(DataValues(evs, "device_id")))),
              total_login_attempts |-> Int2Rat(Len(evs)),
              failed_login_attempts |-> Int2Rat(failed_attempts),
              login_success_rate |-> Rat(Len(evs) - failed_attempts, Len(evs))]

\* _extract_temporal_features, for events whose timestamps parse
ExtractTemporalFeatures(evs, time) ==
    IF evs = <<>> THEN EmptyDict
    ELSE LET timestamps == [i \in 1 .. Len(evs) |-> EventTime(evs[i], time)]
             work_hours_events ==
                 Cardinality({i \in 1 .. Len(evs) :
                                 /\ 9 <= HourOf(timestamps[i])
                                 /\ HourOf(timestamps[i]) <= 17})
             first == CHOOSE t \in Range(timestamps) :
                         \A x \in Range(timestamps) : t <= x
         IN  [events_in_work_hours |-> Int2Rat(work_hours_events),
              work_hours_ratio |-> Rat(work_hours_events, Len(evs)),
              total_time_span |->
                 Int2Rat((MaxOf(timestamps) - first)
                            * seconds_per_minute)]

\* _extract_behavioral_features: the extractors of the event types present,
\* then the temporal features; fromisoformat raises on a timestamp that
\* does not parse
ExtractBehavioralFeatures(evs, time) ==
    IF \E i \in 1 .. Len(evs) :
          "timestamp" \in DOMAIN evs[i] /\ evs[i].timestamp = Unparseable
    THEN [raised |-> TRUE, features |-> EmptyDict]
    ELSE [raised |-> FALSE,
          features |->
             Merge(Merge(ExtractFileFeatures(EventsOfType(evs, "file_access")),
                         ExtractNetworkFeatures(
                            EventsOfType(evs, "network_request"))),
                   Merge(ExtractLoginFeatures(
                            EventsOfType(evs, "login_event")),
                         ExtractTemporalFeatures(evs, time)))]

\* what a fitted model's decision_function does: it raises, or it returns a
\* value, here in hundredths
RawDecisions ==
    {[raises |-> TRUE, value |-> 0]}
       \cup {[raises |-> FALSE, value |-> v] :
                v \in {0 - 150, 0 - 80, 0 - 30, 20, 150}}

\* max(0, min(1, (1 - score) / 2))
Rescaled(score) ==
    IF 100 - score <= 0 THEN Zero
    ELSE IF 100 - score >= 200 THEN One
    ELSE Rat(100 - score, 200)

\* _calculate_anomaly_score without the score for users that have no
\* baseline
CalculateAnomalyScore_NoFallback(user_id, features, models, raw) ==
    IF features = EmptyDict THEN Zero
    ELSE IF user_id \in DOMAIN models
    THEN IF raw.raises THEN Zero ELSE Rescaled(raw.value)
    ELSE Zero

\* _calculate_anomaly_score
CalculateAnomalyScore(user_id, features, models, raw) ==
    IF features = EmptyDict THEN Zero
    ELSE IF user_id \in DOMAIN models
    THEN IF raw.raises THEN Zero ELSE Rescaled(raw.value)
    ELSE Rat(3, 10)

\* _detect_patterns
DetectPatterns(features) ==
    [high_activity |->
        RatLess(Int2Rat(100), Get(features, "total_file_accesses", Zero)),
     unusual_timing |->
        RatLess(Get(features, "work_hours_ratio", One), Rat(3, 10)),
     data_access_spike |->
        RatLess(Int2Rat(1000000), Get(features, "total_data_volume", Zero)),
     login_anomaly |->
        RatLess(Get(features, "login_success_rate", One), Rat(8, 10))]

\* _determine_risk_level
DetermineRiskLevel(anomaly_score) ==
    IF ~RatLess(anomaly_score, Rat(8, 10)) THEN "critical"
    ELSE IF ~RatLess(anomaly_score, Rat(6, 10)) THEN "high"
    ELSE IF ~RatLess(anomaly_score, Rat(4, 10)) THEN "medium"
    ELSE "low"

\* analyze_user_behavior: it raises what the feature extraction raises, and
\* otherwise returns the analysis
AnalyzeUserBehavior(user_id, evs, models, time, raw) ==
    LET extracted == ExtractBehavioralFeatures(evs, time)
        features == extracted.features
        anomaly_score == CalculateAnomalyScore(user_id, features, models, raw)
    IN  IF extracted.raised
        THEN [raised |-> TRUE, analysis |-> EmptyDict]
        ELSE IF features = EmptyDict
        THEN [raised |-> FALSE,
              analysis |->
                 [user_id |-> user_id, anomaly_score |-> Zero,
                  risk_level |-> "low", patterns |-> EmptyDict,
                  anomalies |-> <<>>]]
        ELSE [raised |-> FALSE,
              analysis |->
                 [user_id |-> user_id, anomaly_score |-> anomaly_score,
                  risk_level |-> DetermineRiskLevel(anomaly_score),
                  patterns |-> DetectPatterns(features),
                  anomalies |-> IdentifyAnomalies(features, anomaly_score),
                  analysis_timestamp |-> time,
                  event_count |-> Len(evs)]]

-----------------------------------------------------------------------------
(* The pipeline from an event batch to alerts.  Its stages are the three   *)
(* services in the order of the data flow: the analyzer's result, with the *)
(* features it was computed from, goes to the detector, and the detector's *)
(* threats go to the alert manager.  A risk score reaches the alert        *)
(* manager in tenths, rounded down, which keeps every comparison with its  *)
(* thresholds.                                                             *)

bulk_file_count == 60
bulk_file_size == 2000000

FileEvent(size) ==
    [event_type |-> "file_access", timestamp |-> 600,
     event_data |-> [file_path |-> <<"export", ".bin">>, file_size |-> size]]

\* 60 file_access events of 2 MB each, 120 MB in all, at ten in the morning
BulkFiles == [i \in 1 .. bulk_file_count |-> FileEvent(bulk_file_size)]

\* the same files sent out in one network request of 120 MB
BulkFilesSent ==
    Append(BulkFiles,
           [event_type |-> "network_request", timestamp |-> 601,
            event_data |-> [domain |-> "files.example", protocol |-> "https",
                            data_volume |-> bulk_file_count * bulk_file_size]])

\* a reconnaissance within three minutes
Reconnaissance ==
    <<[event_type |-> "directory_enumeration", timestamp |-> 600],
      [event_type |-> "privilege_check", timestamp |-> 601],
      [event_type |-> "network_scan", timestamp |-> 602]>>

\* two logins at two in the night, one of them failed
NightLogins ==
    <<[event_type |-> "login_event", timestamp |-> 120,
       event_data |-> [location |-> "Oslo", device_id |-> "d1",
                       success |-> FALSE]],
      [event_type |-> "login_event", timestamp |-> 121,
       event_data |-> [location |-> "Oslo", device_id |-> "d1",
                       success |-> TRUE]]>>

\* a batch with a timestamp that does not parse
Malformed == <<[event_type |-> "login_event", timestamp |-> Unparseable]>>

PipeBatches ==
    {<<>>, BulkFiles, BulkFilesSent, Reconnaissance, NightLogins, Malformed}

EnvPipe ==
    [users |-> {"u1"}, types |-> ThreatTypes, threats |-> {Qualifying},
     step |-> 15, until |-> 15, batch |-> 1, channels |-> LiveChannels]

PipeInit ==
    /\ now = 0
    /\ rate_limiters = EmptyDict
    /\ alert_history = EmptyDict
    /\ env = EnvPipe
    /\ notification_channels = env.channels
    /\ call = [p \in Procs |-> Idle]
    /\ created = EmptyDict
    /\ PipelineIdle

\* update_baseline with ten samples or more: a model is fitted and stored
UpdateBaseline ==
    \E u \in env.users :
        /\ stage \in {"idle", "alert"}
        /\ u \notin DOMAIN baseline_models
        /\ baseline_models' = Put(baseline_models, u, "fitted")
        /\ UNCHANGED <<now, rate_limiters, alert_history,
                       notification_channels, call, created, env, events,
                       behavioral_analysis, threats, baseline_cache, runs,
                       stage, submitted>>

\* processBatch(user_id, events) is called
Submit ==
    \E batch \in PipeBatches :
        /\ stage \in {"idle", "alert"}
        /\ \A q \in Procs : call[q].pc = "idle"
        /\ events' = batch
        /\ behavioral_analysis' = EmptyDict
        /\ threats' = <<>>
        /\ runs' = <<>>
        /\ stage' = "analyze"
        /\ UNCHANGED <<now, rate_limiters, alert_history,
                       notification_channels, call, created, env,
                       baseline_models, baseline_cache, submitted>>

\* analyze_user_behavior on the batch; what it raises ends the call
Analyze ==
    \E raw \in RawDecisions :
        LET r == AnalyzeUserBehavior("u1", events, baseline_models, now, raw)
        IN  /\ stage = "analyze"
            /\ behavioral_analysis' = r.analysis
            /\ stage' = IF r.raised THEN "idle" ELSE "detect"
            /\ UNCHANGED <<now, rate_limiters, alert_history,
                           notification_channels, call, created, env, events,
                           threats, baseline_models, baseline_cache, runs,
                           submitted>>

\* (features + score): the analysis with the features of the batch
DetectorInput(analysis, evs, time) ==
    Merge(analysis, ExtractBehavioralFeatures(evs, time).features)

\* detect_threats on the analysis, the features and the batch
Detect ==
    /\ stage = "detect"
    /\ LET run == RunOf(DetectorInput(behavioral_analysis, events, now),
                        events, now)
       IN  /\ threats' = run.result
           /\ runs' = Append(runs, run)
    /\ stage' = "promote"
    /\ UNCHANGED <<now, rate_limiters, alert_history, notification_channels,
                   call, created, env, events, behavioral_analysis,
                   baseline_models, baseline_cache, submitted>>

\* a risk score in tenths, rounded down
FloorTenths(x) == (10 * x.num) \div x.den

\* a threat of the detector as the alert manager reads it
AlertThreat(t) ==
    [threat_type |-> t.threat_type, severity |-> t.severity,
     risk_score |-> FloorTenths(t.risk_score)]

\* process_threats on the threats of the detector
Promote ==
    /\ stage = "promote"
    /\ ProcessThreats(1, "u1", [i \in 1 .. Len(threats) |->
                                  AlertThreat(threats[i])])
    /\ stage' = "alert"
    /\ UNCHANGED submitted

PipeNext ==
    \/ UpdateBaseline \/ Submit \/ Analyze \/ Detect \/ Promote
    \/ RunTasks \/ Answer \/ Continue \/ Tick

PipeSpec == PipeInit /\ [][PipeNext]_vars

-----------------------------------------------------------------------------
(* The pipeline: vocabulary                                                *)

\* the call of process_threats for the batch at hand is through its loop,
\* for a user without a baseline, and no alert was created before it
FirstBatchDone(batch) ==
    /\ events = batch
    /\ stage = "alert"
    /\ call[1].pc = "return"
    /\ "u1" \notin DOMAIN baseline_models
    /\ Sum(created, DOMAIN created) = Len(call[1].alerts)

RuleIds(lst) == {lst[i].rule_id : i \in 1 .. Len(lst)}

\* C18: for a user without a baseline, 60 file_access events of 120 MB in
\* all are scored 0.3, trip large_file_access and bulk_download, which are
\* merged into one high threat of confidence 0.75, and that threat becomes a
\* high-priority alert sent to email, chat and siem.
C18_BulkDownloadAlerted ==
    FirstBatchDone(BulkFiles) =>
        /\ behavioral_analysis.anomaly_score = Rat(3, 10)
        /\ {<<"large_file_access">>, <<"bulk_download">>}
              \subseteq RuleIds(runs[1].emitted[1])
        /\ \E i \in 1 .. Len(threats) :
              /\ threats[i].threat_type = "data_exfiltration"
              /\ threats[i].severity = "high"
              /\ threats[i].confidence = Rat(3, 4)
        /\ \E i \in 1 .. Len(call[1].alerts) :
              /\ call[1].alerts[i].threat_type = "data_exfiltration"
              /\ call[1].alerts[i].priority = "high"
              /\ DOMAIN call[1].report[i] = {"email", "slack", "siem"}

\* every timestamp of a batch parses
Parses(evs) ==
    \A i \in 1 .. Len(evs) :
        "timestamp" \in DOMAIN evs[i] => evs[i].timestamp # Unparseable

\* a step that is a call of analyze_user_behavior
Analyzes == stage = "analyze" /\ stage' # stage

\* C20: the analysis of a batch whose timestamps parse does not fail and
\* its anomaly score lies in [0, 1], baseline or not; for a user without a
\* baseline the score is 0.3 for a batch that has events and 0.0 for the
\* empty batch, the risk level low in both cases.
C20_ModerateUnlessEmpty ==
    [][Analyzes /\ Parses(events) =>
          /\ stage' = "detect"
          /\ InUnit(behavioral_analysis'.anomaly_score)
          /\ "u1" \notin DOMAIN baseline_models =>
                /\ behavioral_analysis'.risk_level = "low"
                /\ behavioral_analysis'.anomaly_score
                      = IF events = <<>> THEN Zero ELSE Rat(3, 10)]_vars

\* two night logins of a user without a baseline were scored 0.3, risk low
C20_Witness ==
    /\ stage = "detect"
    /\ "u1" \notin DOMAIN baseline_models
    /\ events = NightLogins
    /\ behavioral_analysis.anomaly_score = Rat(3, 10)
    /\ behavioral_analysis.risk_level = "low"

\* C20 as stated: without a baseline every batch, the empty one too, is
\* scored 0.3 with risk level low.
C20_AlwaysModerate ==
    [][Analyzes /\ Parses(events) /\ "u1" \notin DOMAIN baseline_models =>
          /\ stage' = "detect"
          /\ behavioral_analysis'.risk_level = "low"
          /\ behavioral_analysis'.anomaly_score = Rat(3, 10)]_vars

-----------------------------------------------------------------------------
(* update_baseline and scoring on one BehavioralAnalyzer.  Neither has a    *)
(* point where it yields to the event loop: update_baseline awaits nothing *)
(* and analyze_user_behavior awaits only coroutines that never suspend, so *)
(* each call is one step.  A fitted model is what it was fitted on: the    *)
(* name of the data and the number of samples.  Whether fit raises is up   *)
(* to pandas and scikit-learn.                                             *)

\* calls of the analyzer in one behaviour
MaxAnalyzerCalls == 4

\* len(features) < 10
minimum_samples == 10

\* update_baseline that fits whatever it is given
UpdateBaselineModels_NoMinimum(models, user_id, features, fit_raises) ==
    IF fit_raises THEN models
    ELSE Put(models, user_id,
             [trained_on |-> features.name, samples |-> features.samples])

\* update_baseline: the baseline_models it leaves behind; it returns None
\* whatever happens, the except clause logs what fit raised
UpdateBaselineModels(models, user_id, features, fit_raises) ==
    IF features.samples < minimum_samples THEN models
    ELSE IF fit_raises THEN models
    ELSE Put(models, user_id,
             [trained_on |-> features.name, samples |-> features.samples])

\* the historical feature lists handed to update_baseline
FeatureLists ==
    {[name |-> n, samples |-> k] : n \in {"march", "april"},
                                   k \in {0, 9, 10, 12}}

BaselineUsers == {"u1", "u2"}

\* no baseline stored
NoModel == [trained_on |-> "", samples |-> 0]

BaselineInit ==
    /\ now = 0
    /\ rate_limiters = EmptyDict
    /\ alert_history = EmptyDict
    /\ env = EnvPipe
    /\ notification_channels = env.channels
    /\ call = [p \in Procs |-> Idle]
    /\ created = EmptyDict
    /\ events = <<>>
    /\ behavioral_analysis = EmptyDict
    /\ threats = <<>>
    /\ baseline_models = EmptyDict
    /\ baseline_cache = EmptyDict
    /\ runs = <<>>
    /\ stage = "baseline"
    /\ submitted = 0

\* a call of update_baseline; runs keeps what the last call was
Retrain ==
    \E u \in BaselineUsers, features \in FeatureLists,
       fit_raises \in BOOLEAN :
        /\ stage = "baseline"
        /\ submitted < MaxAnalyzerCalls
        /\ baseline_models'
              = UpdateBaselineModels(baseline_models, u, features, fit_raises)
        /\ runs' = <<[op |-> "update_baseline", user_id |-> u,
                      features |-> features, fit_raises |-> fit_raises,
                      raised |-> FALSE, model |-> NoModel]>>
        /\ submitted' = submitted + 1
        /\ UNCHANGED <<now, rate_limiters, alert_history,
                       notification_channels, call, created, env, events,
                       behavioral_analysis, threats, baseline_cache, stage>>

\* a call of analyze_user_behavior; runs keeps the model it scored with
Score ==
    \E u \in BaselineUsers, raw \in RawDecisions :
        LET r == AnalyzeUserBehavior(u, NightLogins, baseline_models, now, raw)
        IN  /\ stage = "baseline"
            /\ submitted < MaxAnalyzerCalls
            /\ events' = NightLogins
            /\ behavioral_analysis' = r.analysis
            /\ runs' = <<[op |-> "analyze_user_behavior", user_id |-> u,
                          features |-> [name |-> "", samples |-> 0],
                          fit_raises |-> raw.raises, raised |-> r.raised,
                          model |-> Get(baseline_models, u, NoModel)]>>
            /\ submitted' = submitted + 1
            /\ UNCHANGED <<now, rate_limiters, alert_history,
                           notification_channels, call, created, env,
                           threats, baseline_models, baseline_cache, stage>>

BaselineNext == Retrain \/ Score

BaselineSpec == BaselineInit /\ [][BaselineNext]_vars

\* the models a complete fit on ten samples or more produces
CompleteModels ==
    {[trained_on |-> f.name, samples |-> f.samples] :
        f \in {g \in FeatureLists : g.samples >= 10}}

\* the call this step made
LastCall == runs'[1]

(* C21: a stored baseline is always a model of one complete fit on ten      *)
(* samples or more.  update_baseline with fewer than ten samples, or one   *)
(* whose fit raises, leaves every baseline as it was and raises nothing;   *)
(* a fit that succeeds replaces the baseline of its user, and of no other, *)
(* in the step of the call.  A scoring call changes no baseline and scores *)
(* with the one model stored for its user when it runs.                    *)
C21_BaselineWholeOrAbsent ==
    /\ [](\A u \in DOMAIN baseline_models :
             baseline_models[u] \in CompleteModels)
    /\ [][runs' # runs \/ submitted' # submitted =>
          LET c == LastCall
          IN  /\ c.op = "update_baseline" =>
                    /\ c.raised = FALSE
                    /\ (c.features.samples < 10 \/ c.fit_raises)
                          => baseline_models' = baseline_models
                    /\ (c.features.samples >= 10 /\ ~c.fit_raises)
                          => baseline_models'
                                = Put(baseline_models, c.user_id,
                                      [trained_on |-> c.features.name,
                                       samples |-> c.features.samples])
              /\ c.op = "analyze_user_behavior" =>
                    /\ baseline_models' = baseline_models
                    /\ c.model = Get(baseline_models, c.user_id, NoModel)
                    /\ c.model \in CompleteModels \cup {NoModel}
                    /\ c.model = NoModel
                          <=> behavioral_analysis'.anomaly_score = Rat(3, 10)
                                 /\ c.user_id \notin DOMAIN baseline_models]_vars

\* the baseline of a user was replaced by a second fit, and after that an
\* update with nine samples left it as it was
C21_Witness ==
    /\ runs # <<>>
    /\ runs[1].op = "update_baseline"
    /\ runs[1].features = [name |-> "march", samples |-> 9]
    /\ runs[1].user_id = "u1"
    /\ "u1" \in DOMAIN baseline_models
    /\ baseline_models["u1"] = [trained_on |-> "april", samples |-> 12]
    /\ submitted >= 3

-----------------------------------------------------------------------------
\* the threat types that _get_recommended_actions has a list for
TableTypes == {"data_exfiltration", "policy_violation",
               "privilege_escalation", "anomalous_behavior"}

\* every alert that the calls hold in the lists they will return
ReturnedAlerts == UNION {Range(call[p].alerts) : p \in Procs}

(* C22: every alert in the list a process_threats call returns has status   *)
(* open and a recommended_actions list that is not empty: the four actions *)
(* of its threat type when the type is data_exfiltration, policy_violation,*)
(* privilege_escalation or anomalous_behavior, and the three generic       *)
(* actions for every other type.                                           *)
C22_OpenWithRecommendedActions ==
    \A a \in ReturnedAlerts :
        /\ a.status = "open"
        /\ a.recommended_actions # <<>>
        /\ a.threat_type \in TableTypes =>
              /\ a.recommended_actions = action_mapping[a.threat_type]
              /\ Len(a.recommended_actions) = 4
        /\ a.threat_type \notin TableTypes =>
              /\ a.recommended_actions = generic_actions
              /\ Len(a.recommended_actions) = 3

\* one call returns seven alerts, one of each threat type: four with the
\* list of their type, three with the generic list
C22_Witness ==
    \E p \in Procs :
        /\ call[p].pc = "return"
        /\ {a.threat_type : a \in Range(call[p].alerts)} = ThreatTypes
        /\ Cardinality({i \in 1 .. Len(call[p].alerts) :
                           call[p].alerts[i].recommended_actions
                              = generic_actions}) = 3

-----------------------------------------------------------------------------
\* what _anomaly_based_detection contributed to a run
AnomalyEmitted(run) == run.emitted[3]

(* C23: in a run on an analysis with its scores in [0, 1], in which the     *)
(* anomaly-based strategy did not raise, it emitted one                    *)
(* anomalous_behavior threat for the anomaly score when that               *)
(* is above 0.8 and one for each entry of the anomaly list, with the       *)
(* entry's severity, and every threat it emitted has the anomaly score of  *)
(* the analysis as its confidence.                                         *)
C23_AnomalyScoreIsConfidence ==
    \A r \in 1 .. Len(runs) :
        (UnitAnalysis(behavioral_analysis) /\ "anomaly" \notin runs[r].raised) =>
            LET out == AnomalyEmitted(runs[r])
                anomaly_score == Get(behavioral_analysis, "anomaly_score", Zero)
                anomalies == Get(behavioral_analysis, "anomalies", <<>>)
                high == IF RatLess(Rat(8, 10), anomaly_score) THEN 1 ELSE 0
            IN  /\ Len(out) = high + Len(anomalies)
                /\ high = 1 => out[1].rule_id = <<"high_anomaly_score">>
                /\ \A i \in 1 .. Len(anomalies) :
                      out[high + i].severity = anomalies[i].severity
                /\ \A i \in 1 .. Len(out) :
                      /\ out[i].threat_type = "anomalous_behavior"
                      /\ out[i].confidence = anomaly_score

-----------------------------------------------------------------------------
(* The pattern-based strategy on its own, over every short batch of the     *)
(* events of a reconnaissance, and over batches that hold two of them.     *)

\* events in a batch
MaxBatch == 3

\* minutes at which the events of a batch happen; the pattern's timeframe is
\* 30 minutes
BatchMinutes == {0, 20, 30, 31, 62}

ReconnaissanceTypes ==
    {"directory_enumeration", "privilege_check", "network_scan"}

\* an event of each type at each minute, and one of each type that carries
\* no timestamp
BatchEvents ==
    {[event_type |-> t, timestamp |-> m] :
        t \in ReconnaissanceTypes, m \in BatchMinutes}
       \cup {[event_type |-> t] : t \in ReconnaissanceTypes}

\* a reconnaissance at minute m, its steps in the pattern's order
ReconnaissanceAt(m) ==
    <<[event_type |-> "directory_enumeration", timestamp |-> m],
      [event_type |-> "privilege_check", timestamp |-> m],
      [event_type |-> "network_scan", timestamp |-> m + 1]>>

PatternBatches ==
    UNION {[1 .. n -> BatchEvents] : n \in 0 .. MaxBatch}
       \cup {ReconnaissanceAt(0) \o ReconnaissanceAt(40),
             ReconnaissanceAt(40) \o ReconnaissanceAt(0),
             ReconnaissanceAt(0) \o ReconnaissanceAt(20)}

PatternInit ==
    /\ now \in {0, 45}
    /\ rate_limiters = EmptyDict
    /\ alert_history = EmptyDict
    /\ env = EnvDetect
    /\ notification_channels = env.channels
    /\ call = [p \in Procs |-> Idle]
    /\ created = EmptyDict
    /\ events \in PatternBatches
    /\ behavioral_analysis = EmptyDict
    /\ threats = <<>>
    /\ baseline_models = EmptyDict
    /\ baseline_cache = EmptyDict
    /\ runs = <<>>
    /\ stage = "pattern"
    /\ submitted = 0

\* one call of _pattern_based_detection on the batch at hand
CheckPatterns ==
    /\ stage = "pattern"
    /\ threats' = PatternBasedDetection(events, now).threats
    /\ stage' = "matched"
    /\ UNCHANGED <<now, rate_limiters, alert_history, notification_channels,
                   call, created, env, events, behavioral_analysis,
                   baseline_models, baseline_cache, runs, submitted>>

PatternNext == CheckPatterns

PatternSpec == PatternInit /\ [][PatternNext]_vars

\* the consecutive pieces of a list cut after the positions in cuts
Pieces(lst, cuts) ==
    LET ends == cuts \cup {Len(lst)}
        StartOf(e) ==
            1 + (IF \E c \in cuts : c < e
                 THEN CHOOSE c \in cuts : c < e /\ \A d \in cuts : d < e => d <= c
                 ELSE 0)
    IN  {<<StartOf(e), e>> : e \in ends}

\* the gap in seconds from the event at position i to the one at position j
GapSeconds(lst, i, j, time) ==
    (EventTime(lst[j], time) - EventTime(lst[i], time)) * seconds_per_minute

\* the cuts are those of the windows: no event of a piece is later than the
\* timeframe after the first event of the piece, and the first event of the
\* next piece is
IsWindowing(lst, cuts, timeframe, time) ==
    \A piece \in Pieces(lst, cuts) :
        /\ \A j \in piece[1] .. piece[2] :
              GapSeconds(lst, piece[1], j, time) <= timeframe
        /\ piece[2] < Len(lst) =>
              GapSeconds(lst, piece[1], piece[2] + 1, time) > timeframe

\* the event types of the events at positions lo .. hi
TypesIn(lst, lo, hi) == {lst[i].event_type : i \in lo .. hi}

\* the pieces whose event types include every type of the sequence
Matching(lst, cuts, sequence) ==
    {piece \in Pieces(lst, cuts) :
        Range(sequence) \subseteq TypesIn(lst, piece[1], piece[2])}

reconnaissance == threat_patterns[3]

(* C24: the timestamp-sorted events of a batch fall into consecutive        *)
(* windows in exactly one way, every event in one window, a window ending  *)
(* before the first event that is later than the timeframe after the       *)
(* window's first event.  The strategy emits one threat for each window    *)
(* whose event types include every type of the pattern's sequence, in      *)
(* whatever order they occur, counting the window's events, and no other   *)
(* threat; types split over two windows give none.                         *)
C24_OneThreatPerMatchingWindow ==
    stage = "matched" =>
        LET sorted == SortByTimestamp(events)
            windowings ==
                {cuts \in SUBSET (1 .. Len(sorted) - 1) :
                    IsWindowing(sorted, cuts, reconnaissance.timeframe, now)}
        IN  /\ Cardinality(windowings) = 1
            /\ \A cuts \in windowings :
                  LET hits == Matching(sorted, cuts, reconnaissance.sequence)
                  IN  /\ Len(threats) = Cardinality(hits)
                      /\ \A i \in 1 .. Len(threats) :
                            /\ threats[i].rule_id = <<reconnaissance.name>>
                            /\ threats[i].severity = reconnaissance.severity
                      /\ {threats[i].evidence.events[1] :
                             i \in 1 .. Len(threats)}
                            = {piece[2] - piece[1] + 1 : piece \in hits}

\* two reconnaissances forty minutes apart, the later one first in the
\* batch, gave two threats, one for each window of three events
C24_Witness ==
    /\ stage = "matched"
    /\ events = ReconnaissanceAt(40) \o ReconnaissanceAt(0)
    /\ Len(threats) = 2
    /\ \A i \in 1 .. 2 : threats[i].evidence.events = <<3>>

-----------------------------------------------------------------------------
(* The rules, from the analysis to the alert manager: detect_threats on an  *)
(* analysis in which any of the figures the rules read is over its         *)
(* threshold, then process_threats on what it returned.                    *)

\* a figure of the analysis: missing, or over the threshold of its rule
Figure(key, value) == {EmptyDict, [k \in {key} |-> value]}

\* every combination of the five rules that read the analysis, with and
\* without an anomaly score of 0.9
RuleAnalyses ==
    {Merge(Merge(Merge(a, b), Merge(c, d)), Merge(e, f)) :
        a \in Figure("total_data_volume", Int2Rat(120000000)),
        b \in Figure("total_file_accesses", Int2Rat(60)),
        c \in Figure("work_hours_ratio", Rat(1, 5)),
        d \in Figure("unique_login_locations", Int2Rat(6)),
        e \in Figure("failed_login_attempts", Int2Rat(4)),
        f \in Figure("anomaly_score", Rat(9, 10))}

\* no events; a sensitive file read; a reconnaissance
RuleEvents ==
    {<<>>,
     <<[event_type |-> "file_access", timestamp |-> 600,
        event_data |-> [file_path |-> <<"customers", ".csv">>]]>>,
     Reconnaissance}

RulesInit ==
    /\ now = 0
    /\ rate_limiters = EmptyDict
    /\ alert_history = EmptyDict
    /\ env = EnvPipe
    /\ notification_channels = env.channels
    /\ call = [p \in Procs |-> Idle]
    /\ created = EmptyDict
    /\ events \in RuleEvents
    /\ behavioral_analysis \in RuleAnalyses
    /\ threats = <<>>
    /\ baseline_models = EmptyDict
    /\ baseline_cache = EmptyDict
    /\ runs = <<>>
    /\ stage = "detect"
    /\ submitted = 0

\* detect_threats on the analysis and the events, its threats then go to
\* process_threats
DetectForAlerts ==
    /\ stage = "detect"
    /\ LET run == RunOf(behavioral_analysis, events, now)
       IN  /\ threats' = run.result
           /\ runs' = <<run>>
    /\ stage' = "promote"
    /\ UNCHANGED <<now, rate_limiters, alert_history, notification_channels,
                   call, created, env, events, behavioral_analysis,
                   baseline_models, baseline_cache, submitted>>

\* process_threats on the list detect_threats returned
ProcessDetected ==
    /\ stage = "promote"
    /\ ProcessThreats(1, "u1", [i \in 1 .. Len(threats) |->
                                  AlertThreat(threats[i])])
    /\ stage' = "alert"
    /\ UNCHANGED submitted

RulesNext ==
    DetectForAlerts \/ ProcessDetected \/ RunTasks \/ Answer \/ Continue

RulesSpec == RulesInit /\ [][RulesNext]_vars

\* the threats of this type came from the rule-based strategy alone
RuleOnly(run, threat_type) ==
    /\ threat_type \in TypesOf(run.emitted[1])
    /\ \A i \in 2 .. Len(Strategies) : threat_type \notin TypesOf(run.emitted[i])

\* the rule ids behind the threats that came from the rules alone
RuleOnlyIds(run) ==
    {run.emitted[1][i].rule_id[1] :
        i \in {j \in 1 .. Len(run.emitted[1]) :
                  RuleOnly(run, run.emitted[1][j].threat_type)}}

(* C25: a threat that detect_threats returns for a type whose threats came  *)
(* from the rule-based strategy alone, single or merged, has a risk score  *)
(* strictly below the minimum of its severity; process_threats drops it at *)
(* the minimum-score gate and no alert of its type is created.             *)
C25_RuleThreatsBelowMinimum ==
    stage \in {"promote", "alert"} =>
        \A i \in 1 .. Len(threats) :
            RuleOnly(runs[1], threats[i].threat_type) =>
                /\ RatLess(threats[i].risk_score,
                           Rat(min_risk_score[threats[i].severity], 10))
                /\ \A k \in DOMAIN created : k[2] # threats[i].threat_type
                /\ (stage = "alert" /\ Len(call[1].gates) >= i)
                      => call[1].gates[i] = "min_score"

\* all six rules fired and nothing else: the three threats returned, two of
\* them merged, were dropped at the minimum-score gate
C25_Witness ==
    /\ stage = "alert"
    /\ call[1].pc = "return"
    /\ RuleOnlyIds(runs[1])
          = {"large_file_access", "bulk_download", "suspicious_file_types",
             "after_hours_access", "multiple_locations",
             "failed_login_attempts"}
    /\ Len(threats) = 3
    /\ call[1].gates = <<"min_score", "min_score", "min_score">>
    /\ call[1].alerts = <<>>

-----------------------------------------------------------------------------
(* The ML fusion on the score of the analyzer: _calculate_anomaly_score on  *)
(* the features of a user with or without a baseline, then                 *)
(* _ml_based_detection on the features with that score.                    *)

\* the features the fusion reads, each missing or at a value of its range
FusionFeatures ==
    {Merge(Merge(a, b), c) :
        a \in {EmptyDict} \cup {[k \in {"work_hours_ratio"} |-> x] :
                                   x \in {Zero, Rat(1, 2), One}},
        b \in {EmptyDict} \cup {[k \in {"login_success_rate"} |-> x] :
                                   x \in {Zero, Rat(1, 2), One}},
        c \in {EmptyDict} \cup {[k \in {"total_data_volume"} |-> Int2Rat(x)] :
                                   x \in {0, 50000000, 100000000, 500000000}}}

FusionInit ==
    /\ now = 0
    /\ rate_limiters = EmptyDict
    /\ alert_history = EmptyDict
    /\ env = EnvPipe
    /\ notification_channels = env.channels
    /\ call = [p \in Procs |-> Idle]
    /\ created = EmptyDict
    /\ events = <<>>
    /\ behavioral_analysis \in FusionFeatures
    /\ threats = <<>>
    /\ baseline_models \in {EmptyDict, [u \in {"u1"} |-> "fitted"]}
    /\ baseline_cache = EmptyDict
    /\ runs = <<>>
    /\ stage = "score"
    /\ submitted = 0

\* _calculate_anomaly_score on the features; the score joins them
ScoreFeatures ==
    \E raw \in RawDecisions :
        /\ stage = "score"
        /\ behavioral_analysis'
              = Merge([k \in {"anomaly_score"} |->
                          CalculateAnomalyScore("u1", behavioral_analysis,
                                                baseline_models, raw)],
                      behavioral_analysis)
        /\ stage' = "fuse"
        /\ UNCHANGED <<now, rate_limiters, alert_history,
                       notification_channels, call, created, env, events,
                       threats, baseline_models, baseline_cache, runs,
                       submitted>>

\* _ml_based_detection; runs keeps the risk score it computed
FuseMl ==
    /\ stage = "fuse"
    /\ threats' = MlBasedDetection(behavioral_analysis).threats
    /\ runs' = <<[risk_score |-> CalculateMlRiskScore(behavioral_analysis)]>>
    /\ stage' = "fused"
    /\ UNCHANGED <<now, rate_limiters, alert_history, notification_channels,
                   call, created, env, events, behavioral_analysis,
                   baseline_models, baseline_cache, submitted>>

FusionNext == ScoreFeatures \/ FuseMl

FusionSpec == FusionInit /\ [][FusionNext]_vars

\* the weighted combination of the four signals, the data volume already
\* normalised
Weighted(anomaly_score, work_hours_ratio, data_volume, login_success_rate) ==
    RatAdd(RatAdd(RatMul(Rat(4, 10), anomaly_score),
                  RatMul(Rat(3, 10), RatComplement(work_hours_ratio))),
           RatAdd(RatMul(Rat(2, 10), data_volume),
                  RatMul(Rat(1, 10), RatComplement(login_success_rate))))

(* C26: for a user without a baseline the anomaly score is 0.3 (0.0 when    *)
(* there are no features), and the fusion computes                         *)
(* 0.4 * score + 0.3 * (1 - work_hours_ratio) + 0.2 * min(1, volume/10^8)  *)
(* + 0.1 * (1 - login_success_rate), which is then at most 0.72, below the *)
(* 0.75 it must exceed: the ML strategy emits no threat.                   *)
C26_NoMlThreatWithoutBaseline ==
    (stage = "fused" /\ "u1" \notin DOMAIN baseline_models) =>
        LET a == behavioral_analysis
            volume == Get(a, "total_data_volume", Zero)
        IN  /\ a.anomaly_score
                  = IF DOMAIN a = {"anomaly_score"} THEN Zero ELSE Rat(3, 10)
            /\ runs[1].risk_score
                  = Weighted(a.anomaly_score, Get(a, "work_hours_ratio", One),
                             IF RatLess(One, RatDivInt(volume, 100000000))
                             THEN One ELSE RatDivInt(volume, 100000000),
                             Get(a, "login_success_rate", One))
            /\ ~RatLess(Rat(72, 100), runs[1].risk_score)
            /\ threats = <<>>

\* no baseline, nothing done in work hours, every login failed, 500 MB
\* moved: the fusion gave exactly 0.72 and no threat
C26_Witness ==
    /\ stage = "fused"
    /\ "u1" \notin DOMAIN baseline_models
    /\ behavioral_analysis.anomaly_score = Rat(3, 10)
    /\ Get(behavioral_analysis, "work_hours_ratio", One) = Zero
    /\ Get(behavioral_analysis, "login_success_rate", One) = Zero
    /\ Get(behavioral_analysis, "total_data_volume", Zero)
          = Int2Rat(500000000)
    /\ runs[1].risk_score = Rat(72, 100)
    /\ threats = <<>>

-----------------------------------------------------------------------------
(* Calls that overlap, for the cooldown: one user, one threat type, the     *)
(* clock read every five minutes, the siem channel answering over the      *)
(* network so that a call stays suspended while others start.              *)

EnvOverlapCooldown ==
    [users |-> {"u1"}, types |-> {"data_exfiltration"},
     threats |-> {Qualifying}, step |-> 5, until |-> 20, batch |-> 2,
     channels |-> LiveChannels]

CooldownInit ==
    /\ now = 0
    /\ rate_limiters = EmptyDict
    /\ alert_history = EmptyDict
    /\ env = EnvOverlapCooldown
    /\ notification_channels = env.channels
    /\ call = [p \in Procs |-> Idle]
    /\ created = EmptyDict
    /\ PipelineIdle

CooldownSpec == CooldownInit /\ [][ConcNext]_vars

\* the starts s of the windows (s, s + 15] that matter: a window that holds
\* two alerts can be moved until it starts just before one of them
CooldownStarts == {k[3] - 1 : k \in DOMAIN created}

(* C27: when process_threats calls on one AlertManager overlap, the alerts  *)
(* created for one (user, threat type) within any 15 minutes still never   *)
(* number more than one; the duplicate check and the write of its entry    *)
(* are one step, and the entry is the time of the last alert of the key.   *)
C27_OneAlertPerCooldownWhenInterleaved ==
    /\ [](\A u \in env.users, t \in env.types, s \in CooldownStarts :
             CreatedFor(u, t, s, s + cooldown_minutes) <= 1)
    /\ [](\A k \in DOMAIN alert_history :
             alert_history[k] = LastAlert(k[1], k[2]))
    /\ [][\A p \in Procs :
             Creates(p) =>
                LET a == Dispatching(call'[p])
                    k == DuplicateKey(a.user_id, a.threat_type)
                IN  /\ k \in DOMAIN alert_history =>
                          alert_history[k] <= now - cooldown_minutes
                    /\ alert_history'[k] = now]_vars

\* a call is suspended in the dispatch of an alert created fifteen minutes
\* after the one before it, and a call that started meanwhile had its
\* threat of the same key suppressed
C27_Witness ==
    \E p, q \in Procs :
        /\ call[p].pc = "await"
        /\ Dispatching(call[p]).created_at = now
        /\ call[q].pc = "return"
        /\ call[q].gates[1] = "duplicate"
        /\ call[q].user_id = call[p].user_id
        /\ call[q].threats[1].threat_type = Dispatching(call[p]).threat_type
        /\ CreatedFor(call[p].user_id, Dispatching(call[p]).threat_type,
                      now - cooldown_minutes, now) = 1
        /\ <<call[p].user_id, Dispatching(call[p]).threat_type,
              now - cooldown_minutes>> \in DOMAIN created

-----------------------------------------------------------------------------
(* The hour of the rate limits going by: two users reaching the cap of one  *)
(* threat type, and one user whose alerts take time to dispatch, so that   *)
(* the timestamp a counter gets is later than the creation of the alert.   *)

EnvSlowDispatch ==
    [users |-> {"u1"}, types |-> {"data_exfiltration"},
     threats |-> {Qualifying}, step |-> 15, until |-> MaxTime,
     batch |-> 1, channels |-> LiveChannels]

SlidingInit ==
    /\ now = 0
    /\ rate_limiters = EmptyDict
    /\ alert_history = EmptyDict
    /\ env \in {EnvTypeCap, EnvSlowDispatch}
    /\ notification_channels = env.channels
    /\ call = [p \in Procs |-> Idle]
    /\ created = EmptyDict
    /\ PipelineIdle

SlidingSpec == SlidingInit /\ [][Next]_vars

\* the timestamps of a counter that are strictly later than an hour before
\* the present time
Recent(rl, k) ==
    Cardinality({i \in 1 .. Len(Counter(rl, k)) :
                    Counter(rl, k)[i] > now - hour_minutes})

\* the counter holds its timestamps of the last hour and no other
Pruned(k) ==
    /\ k \in DOMAIN rate_limiters'
    /\ \A x \in Range(rate_limiters'[k]) : x > now - hour_minutes
    /\ \A x \in Range(Counter(rate_limiters, k)) :
          x > now - hour_minutes
             => Occ(rate_limiters'[k], x) = Occ(Counter(rate_limiters, k), x)

-----------------------------------------------------------------------------
(* Alert ids: users whose ids run into the threat types, two threat types,  *)
(* and alerts created in the same second, by one call and by several.      *)

EnvIds ==
    [users |-> {"u1", "u1_data"},
     types |-> {"data_exfiltration", "policy_violation"},
     threats |-> {Qualifying}, step |-> 15, until |-> 15, batch |-> 2,
     channels |-> [email |-> NotifyOff, webhook |-> NotifyNoUrl,
                   slack |-> NotifyOff, siem |-> NotifyLive]]

IdInit ==
    /\ now = 0
    /\ rate_limiters = EmptyDict
    /\ alert_history = EmptyDict
    /\ env = EnvIds
    /\ notification_channels = env.channels
    /\ call = [p \in Procs |-> Idle]
    /\ created = EmptyDict
    /\ PipelineIdle

IdSpec == IdInit /\ [][Next]_vars

\* the ids of the alerts created so far
IdOf(k) == AlertId(k[1], k[2], k[3])

(* C29: no two alerts created by one AlertManager carry the same id: an     *)
(* alert's id is made of its second of creation, its user_id and its       *)
(* threat type; no two alerts of one (user, threat type) are created       *)
(* less than the cooldown apart, and alerts that differ in user or threat  *)
(* type differ in id although the id joins the two with an underscore.     *)
C29_AlertIdsUnique ==
    /\ \A k \in DOMAIN created : created[k] = 1
    /\ \A k1, k2 \in DOMAIN created :
          /\ (k1[1] = k2[1] /\ k1[2] = k2[2] /\ k1 # k2)
                => (k1[3] - k2[3] >= cooldown_minutes
                       \/ k2[3] - k1[3] >= cooldown_minutes)
          /\ k1 # k2 => IdOf(k1) # IdOf(k2)
    /\ \A a \in ReturnedAlerts :
          a.id = IdOf(<<a.user_id, a.threat_type, a.created_at>>)

\* four alerts were created in the same second, for two users and two
\* threat types, and one more fifteen minutes later
C29_Witness ==
    /\ Cardinality({k \in DOMAIN created : k[3] = 0}) = 4
    /\ now = 15
    /\ \E k \in DOMAIN created : k[3] = 15

-----------------------------------------------------------------------------
(* The order of the gates and the duplicate-suppression table.             *)

\* the gates the step appended to the history of call p
NewGates(p) == Len(call[p].gates) + 1 .. Len(call'[p].gates)

\* the alert_history key of the i-th threat of call p after the step
KeyOf(p, i) == DuplicateKey(call'[p].user_id, call'[p].threats[i].threat_type)

\* the time of the entry of key k, -1 when there is none
Entry(ah, k) == Get(ah, k, -1)

\* the step of call p went through its loop
Loops(p) == call'[p] # call[p] /\ call'[p].pc \in {"await", "return"}
               /\ call[p].pc \in {"idle", "await"}

(* C30: the gates run in the order minimum score, rate limit, duplicate    *)
(* and stop at the first that rejects: a threat below its minimum score or *)
(* over a rate limit leaves alert_history as it was, whether or not the    *)
(* duplicate gate would have suppressed it, and so does a suppressed one;  *)
(* a step changes alert_history only by setting the entry of the one       *)
(* threat that passed all three gates to the present time.                 *)
C30_RateLimitedLeavesHistory ==
    /\ [](\A u \in env.users, t \in env.types, x \in env.threats :
            LET threat == Threat(t, x)
                g == ShouldGenerateAlert(rate_limiters, alert_history, u,
                                         threat, now)
                limited == IsRateLimited(rate_limiters, u, t, now).limited
            IN  /\ BelowMinimum(threat) => g.gate = "min_score"
                /\ (~BelowMinimum(threat) /\ limited) => g.gate = "rate_limit"
                /\ ~g.ok => g.ah = alert_history
                /\ g.ok => g.ah = Put(alert_history, DuplicateKey(u, t), now))
    /\ [][/\ \A p \in Procs : Loops(p) =>
                \A i \in NewGates(p) :
                    call'[p].gates[i] \in {"rate_limit", "min_score"}
                       /\ (call'[p].gates[Len(call'[p].gates)] # "alert"
                             \/ KeyOf(p, i) # KeyOf(p, Len(call'[p].gates)))
                       => Entry(alert_history', KeyOf(p, i))
                             = Entry(alert_history, KeyOf(p, i))
         /\ alert_history' # alert_history =>
                \E p \in Procs :
                    /\ Loops(p)
                    /\ call'[p].pc = "await"
                    /\ call'[p].gates[call'[p].idx] = "alert"
                    /\ alert_history' = Put(alert_history,
                                            KeyOf(p, call'[p].idx), now)]_vars

\* a qualifying threat was rejected by the rate-limit gate when the last
\* alert of its (user, type) was the cooldown or more ago: the duplicate
\* gate would have let it pass and written the entry, which is as it was
C30_Witness ==
    \E p \in Procs :
        LET c == call[p]
            k == DuplicateKey(c.user_id, c.threats[1].threat_type)
        IN  /\ c.pc = "return"
            /\ c.gates[1] = "rate_limit"
            /\ ~BelowMinimum(c.threats[1])
            /\ c.alerts = <<>>
            /\ k \in DOMAIN alert_history
            /\ alert_history[k] + cooldown_minutes <= now

====
